---- MODULE Spec2Model ----
(***************************************************************************)
(* Verification model of the turkey lexer: the regular-expression IR, the  *)
(* derivative matcher, the NFA matcher and the two rule-driven streaming    *)
(* lexers (src/lexer/lexer.rs over derivatives, src/lex/lexer.rs over       *)
(* NFAs).  A character is its code point; Option<T> is a sequence of        *)
(* length 0 (None) or 1 (Some); Rust indices are kept 0-based and shifted   *)
(* by one when a TLA+ sequence is indexed.                                  *)
(***************************************************************************)
EXTENDS Integers, Sequences, FiniteSets, TLC

None == <<>>
Some(x) == <<x>>
IsSome(o) == Len(o) = 1
Unwrap(o) == o[1]

CHAR_MIN == 0
CHAR_MAX == 1114111

(***************************************************************************)
(* src/lexer/regex.rs : the IR with cached nullability and smart           *)
(* constructors, its Brzozowski derivative and the Matcher.                *)
(***************************************************************************)
is_empty(r) == r.node[1] = "Empty"

is_epsilon(r) == r.node[1] = "Epsilon"

empty == [node |-> <<"Empty">>, nullable |-> FALSE]

epsilon == [node |-> <<"Epsilon">>, nullable |-> TRUE]

range(lo, hi) == [node |-> <<"Range", lo, hi>>, nullable |-> FALSE]

any == range(CHAR_MIN, CHAR_MAX)

char(c) == range(c, c)

concat(self, other) ==
    IF is_empty(self) \/ is_epsilon(other) THEN self
    ELSE IF is_empty(other) \/ is_epsilon(self) THEN other
    ELSE [node |-> <<"Concat", self, other>>,
          nullable |-> self.nullable /\ other.nullable]

\* faulty variant of union: the flag is the conjunction of the operands' flags
union_flag_and(self, other) ==
    IF is_empty(self) THEN other
    ELSE IF is_empty(other) THEN self
    ELSE [node |-> <<"Union", self, other>>,
          nullable |-> self.nullable /\ other.nullable]

union(self, other) ==
    IF is_empty(self) THEN other
    ELSE IF is_empty(other) THEN self
    ELSE [node |-> <<"Union", self, other>>,
          nullable |-> self.nullable \/ other.nullable]

star(self) == [node |-> <<"Star", self>>, nullable |-> TRUE]

plus(self) == concat(self, star(self))

opt(self) == union(self, epsilon)

RECURSIVE one_of_from(_, _, _)
one_of_from(chars, i, r) ==
    IF i > Len(chars) THEN r
    ELSE one_of_from(chars, i + 1, union(r, char(chars[i])))

one_of(chars) == one_of_from(chars, 1, empty)

incr_char(c) == IF c = 55295 THEN 57344 ELSE c + 1

\* faulty variant of decr_char: the surrogate range is not skipped
decr_char_plain(c) == c - 1

decr_char(c) == IF c = 57344 THEN 55295 ELSE c - 1

SeqRange(s) == {s[i] : i \in 1..Len(s)}

SetMin(S) == CHOOSE x \in S : \A y \in S : x <= y

\* the elements of S in increasing order
SortedSeqOf(S) ==
    [k \in 1..Cardinality(S) |->
        CHOOSE x \in S : Cardinality({y \in S : y < x}) = k - 1]

\* chars.sort_unstable(); chars.dedup()
sort_dedup(chars) == SortedSeqOf(SeqRange(chars))

RECURSIVE none_of_pairs(_, _, _)
none_of_pairs(chars, i, r) ==
    IF i >= Len(chars) THEN r
    ELSE LET a == chars[i]
             b == chars[i + 1]
             anext == incr_char(a)
             bprev == decr_char(b)
         IN none_of_pairs(chars, i + 1,
                IF bprev # a THEN union(r, range(anext, bprev)) ELSE r)

none_of(s) ==
    LET chars == sort_dedup(s)
        r1 == none_of_pairs(chars, 1, empty)
        r2 == IF Len(chars) > 0 /\ chars[1] # CHAR_MIN
              THEN union(r1, range(CHAR_MIN, decr_char(chars[1])))
              ELSE r1
        r3 == IF Len(chars) > 0 /\ chars[Len(chars)] # CHAR_MAX
              THEN union(r2, range(incr_char(chars[Len(chars)]), CHAR_MAX))
              ELSE r2
    IN r3

is_nullable(r) == r.nullable

v(r) == IF is_nullable(r) THEN epsilon ELSE empty

RECURSIVE derivative(_, _)
derivative(self, c) ==
    CASE self.node[1] = "Empty" -> empty
      [] self.node[1] = "Epsilon" -> empty
      [] self.node[1] = "Range" ->
            IF self.node[2] <= c /\ c <= self.node[3] THEN epsilon ELSE empty
      [] self.node[1] = "Concat" ->
            LET a == self.node[2]
                b == self.node[3]
                da == derivative(a, c)
                db == derivative(b, c)
                va == v(a)
            IN union(concat(da, b), concat(va, db))
      [] self.node[1] = "Union" ->
            union(derivative(self.node[2], c), derivative(self.node[3], c))
      [] self.node[1] = "Star" ->
            concat(derivative(self.node[2], c), self)

Matcher_new(regex) == [regex |-> regex, state |-> regex]

\* faulty variant of reset: the state is left where the feeds took it
Matcher_reset_keeps_state(m) == m

Matcher_reset(m) == [m EXCEPT !.state = m.regex]

Matcher_put(m, c) == [m EXCEPT !.state = derivative(m.state, c)]

\* faulty variant of is_accepted: any matcher that is still alive counts as accepting
is_accepted_while_alive(m) == ~is_empty(m.state)

is_accepted(m) == is_nullable(m.state)

Matcher_is_dead(m) == is_empty(m.state)


(***************************************************************************)
(* src/lexer/lexer.rs : the rule-driven lexer over derivative matchers.    *)
(* A lexer value is a record of the struct's fields plus `panicked`, which *)
(* records that the call unwound with a Rust panic.                         *)
(***************************************************************************)
\* faulty variant of the Lexeme constructor: the kept span loses its last character
Lexeme_short_span(token, position, length, span) ==
    [token |-> token, position |-> position, length |-> length,
     span |-> IF IsSome(span)
              THEN Some(SubSeq(Unwrap(span), 1, Len(Unwrap(span)) - 1))
              ELSE None]

\* faulty variant of the Lexeme constructor: the length is the index of the
\* last character and not the number of characters
Lexeme_at_cursor(token, position, length, span) ==
    [token |-> token, position |-> position, length |-> length - 1, span |-> span]

Lexeme(token, position, length, span) ==
    [token |-> token, position |-> position, length |-> length, span |-> span]

Lexer_new ==
    [modes |-> <<>>, current_mode |-> 0, start_mode |-> 0,
     input |-> <<>>, cursor |-> 0, position |-> 0, output |-> <<>>,
     last_accepted |-> None, error |-> None, map |-> <<>>,
     panicked |-> FALSE]

\* self.map.entry(mode).or_insert_with(|| { push an empty rule list })
Lexer_mode_entry(self, mode) ==
    IF mode \in DOMAIN self.map THEN self
    ELSE [self EXCEPT !.map = self.map @@ (mode :> Len(self.modes)),
                      !.modes = Append(self.modes, <<>>)]

Lexer_set_start_mode(self, mode) ==
    LET s1 == Lexer_mode_entry(self, mode)
    IN [s1 EXCEPT !.current_mode = s1.map[mode]]

Lexer_add_rule(self, regex, token, keep_span, from_mode, to_mode) ==
    LET s1 == Lexer_mode_entry(self, from_mode)
        from_mode_index == s1.map[from_mode]
        s2 == Lexer_mode_entry(s1, to_mode)
        to_mode_index == s2.map[to_mode]
        rule == [token |-> token, matcher |-> Matcher_new(regex),
                 keep_span |-> keep_span, to_mode |-> to_mode_index]
    IN [s2 EXCEPT !.modes[from_mode_index + 1] = Append(@, rule)]

Lexer_reset_rules(rules) ==
    [i \in 1..Len(rules) |-> [rules[i] EXCEPT !.matcher = Matcher_reset(@)]]

Lexer_reset(self) ==
    [self EXCEPT !.modes = [m \in 1..Len(self.modes) |-> Lexer_reset_rules(self.modes[m])],
                 !.input = <<>>,
                 !.position = 0,
                 !.output = <<>>,
                 !.last_accepted = None,
                 !.error = None,
                 !.current_mode = self.start_mode]

\* faulty variant of emit: the position accumulator is not advanced
Lexer_emit_keeps_position(self) ==
    IF IsSome(self.last_accepted)
    THEN LET lexeme == Unwrap(self.last_accepted)[1]
             mode_to == Unwrap(self.last_accepted)[2]
         IN [self EXCEPT !.last_accepted = None,
                         !.input = SubSeq(self.input, lexeme.length + 1, Len(self.input)),
                         !.current_mode = mode_to,
                         !.modes[mode_to + 1] = Lexer_reset_rules(@),
                         !.output = Append(self.output, lexeme)]
    ELSE [self EXCEPT !.error = Some("unexpected character")]

\* faulty variant of emit: the rule's to_mode is ignored, the mode stays as it is
Lexer_emit_keeps_mode(self) ==
    IF IsSome(self.last_accepted)
    THEN LET lexeme == Unwrap(self.last_accepted)[1]
         IN [self EXCEPT !.last_accepted = None,
                         !.position = self.position + lexeme.length,
                         !.input = SubSeq(self.input, lexeme.length + 1, Len(self.input)),
                         !.modes[self.current_mode + 1] = Lexer_reset_rules(@),
                         !.output = Append(self.output, lexeme)]
    ELSE [self EXCEPT !.error = Some("unexpected character")]

Lexer_emit(self) ==
    IF IsSome(self.last_accepted)
    THEN LET lexeme == Unwrap(self.last_accepted)[1]
             mode_to == Unwrap(self.last_accepted)[2]
         IN [self EXCEPT !.last_accepted = None,
                         !.position = self.position + lexeme.length,
                         !.input = SubSeq(self.input, lexeme.length + 1, Len(self.input)),
                         !.current_mode = mode_to,
                         !.modes[mode_to + 1] = Lexer_reset_rules(@),
                         !.output = Append(self.output, lexeme)]
    ELSE [self EXCEPT !.error = Some("unexpected character")]

\* the body of `for rule in self.modes[self.current_mode].iter_mut()`, from rule i on;
\* st carries the rules (their matchers advance), `accepted` and `all_dead`
RECURSIVE Lexer_lex_rules(_, _, _, _, _)
Lexer_lex_rules(self, c, cursor, i, st) ==
    IF i > Len(st.rules) THEN st
    ELSE LET rule == st.rules[i]
             m == Matcher_put(rule.matcher, c)
             lexeme == Lexeme(rule.token, self.position, cursor + 1,
                              IF rule.keep_span
                              THEN Some(SubSeq(self.input, 1, cursor + 1))
                              ELSE None)
             acc == IF is_accepted(m) /\ ~IsSome(st.accepted)
                    THEN Some(<<lexeme, rule.to_mode>>)
                    ELSE st.accepted
         IN Lexer_lex_rules(self, c, cursor, i + 1,
                [rules |-> [st.rules EXCEPT ![i].matcher = m],
                 accepted |-> acc,
                 all_dead |-> st.all_dead /\ Matcher_is_dead(m)])

\* the `while cursor < self.input.len()` loop; all_dead is set once, before the loop
RECURSIVE Lexer_lex_while(_, _, _, _)
Lexer_lex_while(self, cursor, accepted, all_dead) ==
    IF ~(cursor < Len(self.input)) THEN self
    ELSE IF ~(self.current_mode < Len(self.modes))
    THEN [self EXCEPT !.panicked = TRUE]
    ELSE LET c == self.input[cursor + 1]
             st == Lexer_lex_rules(self, c, cursor, 1,
                      [rules |-> self.modes[self.current_mode + 1],
                       accepted |-> accepted, all_dead |-> all_dead])
             s1 == [self EXCEPT !.modes[self.current_mode + 1] = st.rules]
             s2 == IF IsSome(st.accepted)
                   THEN [s1 EXCEPT !.last_accepted = st.accepted]
                   ELSE s1
         IN IF st.all_dead
            THEN LET s3 == Lexer_emit(s2)
                 IN IF IsSome(s3.error) THEN s3
                    ELSE Lexer_lex_while(s3, 0, None, st.all_dead)
            ELSE Lexer_lex_while(s2, cursor + 1, None, st.all_dead)

Lexer_lex(self) == Lexer_lex_while(self, Len(self.input) - 1, None, TRUE)

\* faulty variant of put: the sticky error is not consulted
Lexer_put_unguarded(self, c) ==
    Lexer_lex([self EXCEPT !.input = Append(self.input, c)])

Lexer_put(self, c) ==
    IF IsSome(self.error) THEN self
    ELSE Lexer_lex([self EXCEPT !.input = Append(self.input, c)])

Lexer_finish(self) ==
    IF IsSome(self.error) THEN self
    ELSE LET s1 == Lexer_emit(self)
         IN IF Len(s1.input) > 0
            THEN [s1 EXCEPT !.error = Some("unexpected end of input")]
            ELSE s1

\* returns <<lexer after the call, returned Option<Lexeme>>>
Lexer_get(self) ==
    IF IsSome(self.error) THEN <<self, None>>
    ELSE IF Len(self.output) > 0
         THEN <<[self EXCEPT !.output = Tail(self.output)], Some(Head(self.output))>>
         ELSE <<self, None>>


(***************************************************************************)
(* src/lex/nfa.rs : the NFA (construction, optimisation, simulation).      *)
(* An Nfa value is a record of the struct's fields plus `panicked`, set    *)
(* when an operation unwinds (index out of bounds, unwrap of None, failed  *)
(* assert); every later operation on it is then vacuous.                   *)
(***************************************************************************)
NfaNode_default == [edges |-> <<>>, epsilons |-> <<>>]

Nfa_new ==
    [start |-> <<>>, accept |-> <<>>, nodes |-> <<>>, optimized |-> TRUE,
     current |-> <<>>, next |-> <<>>, panicked |-> FALSE]

Nfa_panic(n) == [n EXCEPT !.panicked = TRUE]

Nfa_add_start(n, start) ==
    IF n.panicked THEN n
    ELSE [n EXCEPT !.optimized = FALSE, !.start = Append(@, start)]

Nfa_add_accept(n, accept) ==
    IF n.panicked THEN n
    ELSE [n EXCEPT !.optimized = FALSE, !.accept = Append(@, accept)]

\* returns <<nfa, index of the new node>>
Nfa_create_node(n) ==
    IF n.panicked THEN <<n, 0>>
    ELSE <<[n EXCEPT !.optimized = FALSE, !.nodes = Append(@, NfaNode_default)],
           Len(n.nodes)>>

Nfa_add_epsilon(n, from, to) ==
    IF n.panicked THEN n
    ELSE IF ~(from < Len(n.nodes)) THEN Nfa_panic(n)
    ELSE [n EXCEPT !.optimized = FALSE,
                   !.nodes[from + 1].epsilons = Append(@, to)]

\* (l..h).contains(&x) : the half-open range l <= x < h
HalfOpenContains(l, h, x) == l <= x /\ x < h

Nfa_overlaps(n, from, lo, hi) ==
    \E k \in 1..Len(n.nodes[from + 1].edges) :
        LET e == n.nodes[from + 1].edges[k]
        IN HalfOpenContains(e[1], e[2], lo) \/ HalfOpenContains(e[1], e[2], hi)

RECURSIVE Nfa_add_edge(_, _, _, _, _)
Nfa_add_edge(n, from, lo, hi, to) ==
    IF n.panicked THEN n
    ELSE IF ~(from < Len(n.nodes)) THEN Nfa_panic(n)
    ELSE IF Nfa_overlaps(n, from, lo, hi)
    THEN LET cn == Nfa_create_node(n)
             intermediate == cn[2]
         IN Nfa_add_edge(Nfa_add_epsilon(cn[1], from, intermediate),
                         intermediate, lo, hi, to)
    ELSE [n EXCEPT !.optimized = FALSE,
                   !.nodes[from + 1].edges = Append(@, <<lo, hi, to>>)]

\* map.entry(index).or_insert_with(|| self.create_node()) for each key in turn:
\* the k-th distinct key, in order of first occurrence, gets the k-th new node
Nfa_merge_map(n, keys) ==
    LET First(i) == \A j \in 1..(i - 1) : keys[j] # keys[i]
        Rank(i) == Cardinality({j \in 1..(i - 1) : First(j)})
        at == [x \in SeqRange(keys) |-> CHOOSE i \in 1..Len(keys) : keys[i] = x /\ First(i)]
    IN [x \in SeqRange(keys) |-> Len(n.nodes) + Rank(at[x])]

RECURSIVE Nfa_merge_edges(_, _, _, _, _)
Nfa_merge_edges(n, other, map, from, k) ==
    IF n.panicked \/ ~(from < Len(other.nodes)) THEN n
    ELSE IF k > Len(other.nodes[from + 1].edges)
    THEN Nfa_merge_edges(n, other, map, from + 1, 1)
    ELSE LET e == other.nodes[from + 1].edges[k]
         IN IF e[3] \notin DOMAIN map THEN Nfa_panic(n)
            ELSE Nfa_merge_edges(Nfa_add_edge(n, map[from], e[1], e[2], map[e[3]]),
                                 other, map, from, k + 1)

\* `for from in 0..other.nodes.len() { for &to in other.nodes[from].epsilons.iter()
\*  { self.add_epsilon(map[from], map[to]) } }` : every node map[from] gets the
\* mapped epsilons of `from` appended, in order
Nfa_merge_epsilons(n, other, map) ==
    IF n.panicked THEN n
    ELSE IF \E from \in 1..Len(other.nodes) :
               \E k \in 1..Len(other.nodes[from].epsilons) :
                   other.nodes[from].epsilons[k] \notin DOMAIN map
    THEN Nfa_panic(n)
    ELSE LET Mapped(eps) == [k \in 1..Len(eps) |-> map[eps[k]]]
             src == [j \in 1..Len(n.nodes) |->
                        {from \in 1..Len(other.nodes) : map[from - 1] = j - 1}]
         IN [n EXCEPT
               !.optimized = FALSE,
               !.nodes = [j \in 1..Len(n.nodes) |->
                   IF src[j] = {} THEN n.nodes[j]
                   ELSE [n.nodes[j] EXCEPT !.epsilons =
                            @ \o Mapped(other.nodes[CHOOSE from \in src[j] : TRUE].epsilons)]]]

\* returns <<nfa, start, accept>>
Nfa_merge(n, other) ==
    IF n.panicked \/ other.panicked THEN <<Nfa_panic(n), 0, 0>>
    ELSE LET keys == other.start \o other.accept
                     \o [i \in 1..Len(other.nodes) |-> i - 1]
             map == Nfa_merge_map(n, keys)
             n0 == [n EXCEPT !.optimized = FALSE,
                             !.nodes = @ \o [i \in 1..Cardinality(SeqRange(keys)) |->
                                                NfaNode_default]]
             n1 == Nfa_merge_edges(n0, other, map, 0, 1)
             n2 == Nfa_merge_epsilons(n1, other, map)
             cs == Nfa_create_node(n2)
             ca == Nfa_create_node(cs[1])
             start == cs[2]
             accept == ca[2]
         IN IF n2.panicked THEN <<n2, 0, 0>>
            ELSE <<[ca[1] EXCEPT
                      \* self.add_epsilon(start, map[from]) for from in other.start
                      !.nodes[start + 1].epsilons =
                          @ \o [k \in 1..Len(other.start) |-> map[other.start[k]]],
                      \* self.add_epsilon(map[to], accept) for to in other.accept
                      !.nodes = [j \in 1..Len(@) |->
                          [@[j] EXCEPT !.epsilons =
                              @ \o [k \in 1..Len(SelectSeq(other.accept,
                                        LAMBDA t : map[t] = j - 1)) |-> accept]]]],
                   start, accept>>

\* `while let Some(x) = stack.pop() { if visited[x] { continue; } ... }` : the
\* entries popped and skipped are those above the last entry that is not yet
\* visited (an entry out of bounds makes visited[x] unwind); 0 when all are visited
SetMax(S) == CHOOSE x \in S : \A y \in S : y <= x

Nfa_next_pop(stack, visited) ==
    LET live == {i \in 1..Len(stack) :
                    ~(stack[i] < Len(visited)) \/ ~visited[stack[i] + 1]}
    IN IF live = {} THEN 0 ELSE SetMax(live)

\* the walk of epsilon_closure for node a0: returns [ok, eps]
RECURSIVE Nfa_closure_walk(_, _, _, _, _)
Nfa_closure_walk(n, a0, stack, visited, eps) ==
    LET top == Nfa_next_pop(stack, visited)
        b0 == stack[top]
        rest == SubSeq(stack, 1, top - 1)
    IN IF top = 0 THEN [ok |-> TRUE, eps |-> eps]
       ELSE IF ~(b0 < Len(n.nodes)) THEN [ok |-> FALSE, eps |-> eps]
       ELSE IF b0 < a0
       THEN Nfa_closure_walk(n, a0, rest, [visited EXCEPT ![b0 + 1] = TRUE],
                             Append(eps, b0) \o n.nodes[b0 + 1].epsilons)
       ELSE Nfa_closure_walk(n, a0, rest \o n.nodes[b0 + 1].epsilons,
                             [visited EXCEPT ![b0 + 1] = TRUE], Append(eps, b0))

RECURSIVE Nfa_closure_nodes(_, _)
Nfa_closure_nodes(n, a0) ==
    IF ~(a0 < Len(n.nodes)) THEN n
    ELSE LET Closed(w) ==
                 IF ~w.ok THEN Nfa_panic(n)
                 ELSE Nfa_closure_nodes(
                         [n EXCEPT !.nodes[a0 + 1].epsilons = sort_dedup(w.eps)], a0 + 1)
         IN Closed(Nfa_closure_walk(n, a0, n.nodes[a0 + 1].epsilons,
                                    [i \in 1..Len(n.nodes) |-> FALSE], <<>>))

RECURSIVE Nfa_start_eps(_, _)
Nfa_start_eps(n, k) ==
    IF k > Len(n.start) THEN <<>>
    ELSE n.nodes[n.start[k] + 1].epsilons \o Nfa_start_eps(n, k + 1)

Nfa_epsilon_closure(n) ==
    LET Starts(n1) ==
            IF n1.panicked THEN n1
            ELSE IF \E k \in 1..Len(n1.start) : ~(n1.start[k] < Len(n1.nodes))
            THEN Nfa_panic(n1)
            ELSE [n1 EXCEPT !.start = sort_dedup(n1.start \o Nfa_start_eps(n1, 1))]
    IN Starts(Nfa_closure_nodes(n, 0))

Nfa_remove_node(n, deleted) ==
    IF n.panicked THEN n
    ELSE IF ~(deleted < Len(n.nodes)) THEN Nfa_panic(n)
    ELSE LET old_index == Len(n.nodes) - 1
             new_index == deleted
             \* self.nodes.swap_remove(deleted)
             swapped == [i \in 1..(Len(n.nodes) - 1) |->
                            IF i = deleted + 1 THEN n.nodes[Len(n.nodes)]
                            ELSE n.nodes[i]]
             KeepEdge(e) == e[3] # deleted
             KeepId(x) == x # deleted
             Rename(x) == IF x = old_index THEN new_index ELSE x
             RenameEdge(e) == <<e[1], e[2], Rename(e[3])>>
             RenameAll(s) == [i \in 1..Len(s) |-> Rename(s[i])]
             RenameEdges(s) == [i \in 1..Len(s) |-> RenameEdge(s[i])]
         IN [n EXCEPT
               !.optimized = FALSE,
               !.nodes = [i \in 1..Len(swapped) |->
                            [edges |-> RenameEdges(SelectSeq(swapped[i].edges, KeepEdge)),
                             epsilons |-> RenameAll(SelectSeq(swapped[i].epsilons, KeepId))]],
               !.start = RenameAll(SelectSeq(n.start, KeepId)),
               !.accept = RenameAll(SelectSeq(n.accept, KeepId))]

\* `for node in 0..self.nodes.len() { if !visited[node] { self.remove_node(node) } }`
\* with the bound and `visited` fixed before the loop
RECURSIVE Nfa_remove_unvisited(_, _, _)
Nfa_remove_unvisited(n, visited, node) ==
    IF ~(node < Len(visited)) \/ n.panicked THEN n
    ELSE IF ~visited[node + 1]
         THEN Nfa_remove_unvisited(Nfa_remove_node(n, node), visited, node + 1)
         ELSE Nfa_remove_unvisited(n, visited, node + 1)

EdgeTargets(edges) == [i \in 1..Len(edges) |-> edges[i][3]]

\* returns [ok, visited]
RECURSIVE Nfa_reach_walk(_, _, _)
Nfa_reach_walk(n, stack, visited) ==
    LET top == Nfa_next_pop(stack, visited)
        node == stack[top]
        rest == SubSeq(stack, 1, top - 1)
    IN IF top = 0 THEN [ok |-> TRUE, visited |-> visited]
       ELSE IF ~(node < Len(n.nodes)) THEN [ok |-> FALSE, visited |-> visited]
       ELSE Nfa_reach_walk(n,
               rest \o EdgeTargets(n.nodes[node + 1].edges)
                    \o n.nodes[node + 1].epsilons,
               [visited EXCEPT ![node + 1] = TRUE])

Nfa_remove_unreachable_nodes(n) ==
    IF n.panicked THEN n
    ELSE LET Sweep(w) == IF ~w.ok THEN Nfa_panic(n)
                         ELSE Nfa_remove_unvisited(n, w.visited, 0)
         IN Sweep(Nfa_reach_walk(n, n.start, [i \in 1..Len(n.nodes) |-> FALSE]))

\* the nodes pushed for `node`: every `from`, in increasing order, once per edge
\* and per epsilon into `node`
RECURSIVE Nfa_preds(_, _, _)
Nfa_preds(n, node, from) ==
    IF ~(from < Len(n.nodes)) THEN <<>>
    ELSE LET IntoEdge(e) == e[3] = node
             IntoEps(x) == x = node
             hits == Len(SelectSeq(n.nodes[from + 1].edges, IntoEdge))
                     + Len(SelectSeq(n.nodes[from + 1].epsilons, IntoEps))
         IN [i \in 1..hits |-> from] \o Nfa_preds(n, node, from + 1)

RECURSIVE Nfa_dead_walk(_, _, _)
Nfa_dead_walk(n, stack, visited) ==
    LET top == Nfa_next_pop(stack, visited)
        node == stack[top]
        rest == SubSeq(stack, 1, top - 1)
    IN IF top = 0 THEN [ok |-> TRUE, visited |-> visited]
       ELSE IF ~(node < Len(n.nodes)) THEN [ok |-> FALSE, visited |-> visited]
       ELSE Nfa_dead_walk(n, rest \o Nfa_preds(n, node, 0),
                          [visited EXCEPT ![node + 1] = TRUE])

Nfa_remove_dead_nodes(n) ==
    IF n.panicked THEN n
    ELSE LET Sweep(w) == IF ~w.ok THEN Nfa_panic(n)
                         ELSE Nfa_remove_unvisited(n, w.visited, 0)
         IN Sweep(Nfa_dead_walk(n, n.accept, [i \in 1..Len(n.nodes) |-> FALSE]))

\* faulty variant of optimize: `optimized` is neither consulted nor set
Nfa_optimize_unmarked(n) ==
    IF n.panicked THEN n
    ELSE Nfa_remove_dead_nodes(Nfa_remove_unreachable_nodes(Nfa_epsilon_closure(n)))

Nfa_optimize(n) ==
    IF n.optimized \/ n.panicked THEN n
    ELSE LET Optimized(n1) ==
                 IF n1.panicked THEN n1 ELSE [n1 EXCEPT !.optimized = TRUE]
         IN Optimized(Nfa_remove_dead_nodes(
                          Nfa_remove_unreachable_nodes(Nfa_epsilon_closure(n))))

Nfa_reset(n) ==
    LET Restart(n1) == IF n1.panicked THEN n1 ELSE [n1 EXCEPT !.current = n1.start]
    IN Restart(IF ~n.optimized THEN Nfa_optimize(n) ELSE n)

\* the pushes of one active node `from` for character ch
RECURSIVE Nfa_put_edges(_, _, _, _)
Nfa_put_edges(n, from, ch, k) ==
    IF k > Len(n.nodes[from + 1].edges) THEN <<>>
    ELSE LET e == n.nodes[from + 1].edges[k]
         IN (IF e[1] <= ch /\ ch <= e[2]
             THEN <<e[3]>> \o n.nodes[e[3] + 1].epsilons
             ELSE <<>>) \o Nfa_put_edges(n, from, ch, k + 1)

RECURSIVE Nfa_put_from(_, _, _)
Nfa_put_from(n, ch, k) ==
    IF k > Len(n.current) THEN <<>>
    ELSE Nfa_put_edges(n, n.current[k], ch, 1) \o Nfa_put_from(n, ch, k + 1)

\* self.nodes[from] and self.nodes[to] stay in bounds during put
Nfa_put_in_bounds(n, ch) ==
    \A k \in 1..Len(n.current) :
        /\ n.current[k] < Len(n.nodes)
        /\ \A j \in 1..Len(n.nodes[n.current[k] + 1].edges) :
              LET e == n.nodes[n.current[k] + 1].edges[j]
              IN (e[1] <= ch /\ ch <= e[2]) => e[3] < Len(n.nodes)

Nfa_put(n, ch) ==
    IF n.panicked THEN n
    ELSE IF ~n.optimized \/ ~Nfa_put_in_bounds(n, ch) THEN Nfa_panic(n)
    ELSE [n EXCEPT !.current = Nfa_put_from(n, ch, 1), !.next = n.current]

Nfa_is_dead(n) == n.current = <<>>

Nfa_is_accept(n) ==
    \E k \in 1..Len(n.current) : n.current[k] \in SeqRange(n.accept)

(***************************************************************************)
(* src/lex/regex.rs : the regex is the tree of constructor calls itself;   *)
(* to_nfa is the Thompson construction, optimising every sub-automaton.    *)
(***************************************************************************)
to_nfa_empty == Nfa_new

\* a fresh automaton with node 0 as start and node 1 as accept
Nfa_start_accept ==
    LET cs == Nfa_create_node(Nfa_new)
        ca == Nfa_create_node(cs[1])
    IN Nfa_add_accept(Nfa_add_start(ca[1], cs[2]), ca[2])

to_nfa_epsilon == Nfa_add_epsilon(Nfa_start_accept, 0, 1)

to_nfa_range(lo, hi) == Nfa_add_edge(Nfa_start_accept, 0, lo, hi, 1)

to_nfa_char(ch) == to_nfa_range(ch, ch)

to_nfa_any == to_nfa_range(CHAR_MIN, CHAR_MAX)

RECURSIVE to_nfa_one_of_edges(_, _, _)
to_nfa_one_of_edges(n, chars, k) ==
    IF n.panicked \/ k > Len(chars) THEN n
    ELSE to_nfa_one_of_edges(Nfa_add_edge(n, 0, chars[k], chars[k], 1), chars, k + 1)

to_nfa_one_of(chars) ==
    IF chars = <<>> THEN to_nfa_empty
    ELSE to_nfa_one_of_edges(Nfa_start_accept, chars, 1)

to_nfa_concat(lhs, rhs) ==
    LET Link(ml, mr) ==
            Nfa_add_epsilon(
                Nfa_add_epsilon(
                    Nfa_add_epsilon(mr[1], 0, ml[2]),
                    ml[3], mr[2]),
                mr[3], 1)
        MergeRhs(ml) == Link(ml, Nfa_merge(ml[1], rhs))
    IN MergeRhs(Nfa_merge(Nfa_start_accept, lhs))

to_nfa_union(lhs, rhs) ==
    LET Link(ml, mr) ==
            Nfa_add_epsilon(
                Nfa_add_epsilon(
                    Nfa_add_epsilon(
                        Nfa_add_epsilon(mr[1], 0, ml[2]),
                        0, mr[2]),
                    ml[3], 1),
                mr[3], 1)
        MergeRhs(ml) == Link(ml, Nfa_merge(ml[1], rhs))
    IN MergeRhs(Nfa_merge(Nfa_start_accept, lhs))

to_nfa_star(nfa) ==
    LET Link(mi) ==
            Nfa_add_epsilon(
                Nfa_add_epsilon(
                    Nfa_add_epsilon(
                        Nfa_add_epsilon(mi[1], 0, 1),
                        0, mi[2]),
                    mi[3], 1),
                1, 0)
    IN Link(Nfa_merge(Nfa_start_accept, nfa))

to_nfa_plus(nfa) == to_nfa_concat(nfa, to_nfa_star(nfa))

to_nfa_optional(nfa) == to_nfa_union(to_nfa_epsilon, nfa)

char_decr(ch) == IF ch = 57344 THEN 55295 ELSE ch - 1

char_incr(ch) == IF ch = 55295 THEN 57344 ELSE ch + 1

\* the sub-automata of the inner ranges, for the pairs of neighbours in the
\* order the characters were given
RECURSIVE to_nfa_none_of_inner(_, _)
to_nfa_none_of_inner(chars, k) ==
    IF k >= Len(chars) THEN <<>>
    ELSE (IF char_incr(chars[k]) <= char_decr(chars[k + 1])
          THEN <<to_nfa_range(char_incr(chars[k]), char_decr(chars[k + 1]))>>
          ELSE <<>>) \o to_nfa_none_of_inner(chars, k + 1)

\* sub_nfas.into_iter().reduce(|a, b| to_nfa_union(&a, &b))
RECURSIVE to_nfa_reduce(_, _, _)
to_nfa_reduce(acc, subs, k) ==
    IF acc.panicked \/ k > Len(subs) THEN acc
    ELSE to_nfa_reduce(to_nfa_union(acc, subs[k]), subs, k + 1)

to_nfa_none_of(chars) ==
    IF chars = <<>> THEN to_nfa_any
    ELSE IF \E k \in 1..Len(chars) :
               \/ (k < Len(chars) /\ chars[k] = CHAR_MAX)
               \/ (k > 1 /\ chars[k] = CHAR_MIN)
    THEN Nfa_panic(Nfa_start_accept)       \* assert!(c != char::MAX / MIN)
    ELSE LET first == chars[1]
             last == chars[Len(chars)]
             subs == to_nfa_none_of_inner(chars, 1)
                     \o (IF first # CHAR_MIN
                         THEN <<to_nfa_range(CHAR_MIN, char_decr(first))>> ELSE <<>>)
                     \o (IF last # CHAR_MAX
                         THEN <<to_nfa_range(char_incr(last), CHAR_MAX)>> ELSE <<>>)
         IN IF subs = <<>> THEN Nfa_panic(Nfa_start_accept)   \* reduce(..).unwrap()
            ELSE to_nfa_reduce(subs[1], subs, 2)

RECURSIVE to_nfa(_)
to_nfa(e) ==
    Nfa_reset(
        CASE e[1] = "empty" -> to_nfa_empty
          [] e[1] = "epsilon" -> to_nfa_epsilon
          [] e[1] = "char" -> to_nfa_char(e[2])
          [] e[1] = "range" -> to_nfa_range(e[2], e[3])
          [] e[1] = "one_of" -> to_nfa_one_of(e[2])
          [] e[1] = "none_of" -> to_nfa_none_of(e[2])
          [] e[1] = "any" -> to_nfa_any
          [] e[1] = "concat" -> to_nfa_concat(to_nfa(e[2]), to_nfa(e[3]))
          [] e[1] = "union" -> to_nfa_union(to_nfa(e[2]), to_nfa(e[3]))
          [] e[1] = "star" -> to_nfa_star(to_nfa(e[2]))
          [] e[1] = "plus" -> to_nfa_plus(to_nfa(e[2]))
          [] e[1] = "opt" -> to_nfa_optional(to_nfa(e[2])))

(***************************************************************************)
(* src/lex/lexer.rs : the rule-driven lexer over NFA matchers.  The         *)
(* write-only mode_names table is left out; an error is the record         *)
(* LexerError {message, position}.                                          *)
(***************************************************************************)
Lex_new ==
    [modes |-> <<>>, current_mode |-> 0, start_mode |-> 0,
     input |-> <<>>, cursor |-> 0, position |-> 0, output |-> <<>>,
     last_accepted |-> None, error |-> None, map |-> <<>>,
     panicked |-> FALSE]

Lex_get_mode_index(self, mode) ==
    IF mode \in DOMAIN self.map THEN self
    ELSE [self EXCEPT !.map = self.map @@ (mode :> Len(self.modes)),
                      !.modes = Append(self.modes, <<>>)]

Lex_set_start_mode(self, mode) ==
    LET s1 == Lex_get_mode_index(self, mode)
    IN [s1 EXCEPT !.start_mode = s1.map[mode]]

Lex_add_rule(self, token, regex, mode_from, mode_to, keep_span) ==
    LET s1 == Lex_get_mode_index(self, mode_from)
        s2 == Lex_get_mode_index(s1, mode_to)
        Push(nfa) ==
            [s2 EXCEPT !.modes[s1.map[mode_from] + 1] =
                           Append(@, [token |-> token, nfa |-> nfa,
                                      mode_to |-> s2.map[mode_to],
                                      keep_span |-> keep_span]),
                       !.panicked = self.panicked \/ nfa.panicked]
    IN Push(to_nfa(regex))

Lex_reset(self) ==
    [self EXCEPT !.current_mode = self.start_mode,
                 !.cursor = 0,
                 !.position = 0,
                 !.input = <<>>,
                 !.last_accepted = None,
                 !.output = <<>>,
                 !.error = None]

Lex_is_error(self) == IsSome(self.error)

Lex_reset_rules(rules) ==
    [i \in 1..Len(rules) |-> [rules[i] EXCEPT !.nfa = Nfa_reset(@)]]

Lex_emit(self) ==
    IF ~IsSome(self.last_accepted)
    THEN \* the error is stored, then last_accepted.unwrap() unwinds
         [self EXCEPT !.error = Some([message |-> "unexpected input",
                                      position |-> self.cursor]),
                      !.panicked = TRUE]
    ELSE IF ~(self.current_mode < Len(self.modes)) THEN [self EXCEPT !.panicked = TRUE]
    ELSE LET rule == Unwrap(self.last_accepted)[1]
             length == Unwrap(self.last_accepted)[2]
             r == self.modes[self.current_mode + 1][rule + 1]
             span == IF r.keep_span
                     THEN Some(SubSeq(self.input, 1,
                                      IF length < Len(self.input) THEN length
                                      ELSE Len(self.input)))
                     ELSE None
         IN IF length > Len(self.input)
            THEN [self EXCEPT !.panicked = TRUE]       \* drain(..length) out of range
            ELSE [self EXCEPT
                    !.output = Append(self.output,
                                      Lexeme(r.token, self.position, length, span)),
                    !.position = self.position + length,
                    !.current_mode = r.mode_to,
                    !.cursor = 0,
                    !.last_accepted = None,
                    !.input = SubSeq(self.input, length + 1, Len(self.input)),
                    !.modes[r.mode_to + 1] = Lex_reset_rules(@)]

\* the body of `for (i, rule) in self.modes[self.current_mode].iter_mut().enumerate()`
RECURSIVE Lex_lex_rules(_, _, _, _)
Lex_lex_rules(self, ch, i, st) ==
    IF ~(i < Len(st.rules)) THEN st
    ELSE LET nfa == Nfa_put(st.rules[i + 1].nfa, ch)
         IN Lex_lex_rules(self, ch, i + 1,
                [rules |-> [st.rules EXCEPT ![i + 1].nfa = nfa],
                 all_dead |-> st.all_dead /\ Nfa_is_dead(nfa),
                 last_accepted |-> IF Nfa_is_accept(nfa)
                                   THEN Some(<<i, self.cursor + 1>>)
                                   ELSE st.last_accepted,
                 panicked |-> st.panicked \/ nfa.panicked])

\* the `while self.cursor < self.input.len()` loop; all_dead and the local
\* last_accepted are set once, before the loop
RECURSIVE Lex_lex_while(_, _, _)
Lex_lex_while(self, all_dead, local_accepted) ==
    IF ~(self.cursor < Len(self.input)) THEN self
    ELSE IF ~(self.current_mode < Len(self.modes))
    THEN [self EXCEPT !.panicked = TRUE]
    ELSE LET ch == self.input[self.cursor + 1]
             Emitted(s2, st) ==
                 IF s2.panicked THEN s2
                 ELSE Lex_lex_while(s2, st.all_dead, st.last_accepted)
             Stepped(s1, st) ==
                 IF st.panicked THEN [s1 EXCEPT !.panicked = TRUE]
                 ELSE IF st.all_dead THEN Emitted(Lex_emit(s1), st)
                 ELSE Lex_lex_while(
                         [s1 EXCEPT !.last_accepted =
                                        IF IsSome(st.last_accepted) THEN st.last_accepted
                                        ELSE @,
                                    !.cursor = self.cursor + 1],
                         st.all_dead, st.last_accepted)
             Matched(st) ==
                 Stepped([self EXCEPT !.modes[self.current_mode + 1] = st.rules], st)
         IN Matched(Lex_lex_rules(self, ch, 0,
                       [rules |-> self.modes[self.current_mode + 1],
                        all_dead |-> all_dead, last_accepted |-> local_accepted,
                        panicked |-> FALSE]))

Lex_lex(self) == Lex_lex_while(self, TRUE, None)

Lex_put(self, ch) ==
    IF Lex_is_error(self) THEN self
    ELSE Lex_lex([self EXCEPT !.input = Append(self.input, ch)])

Lex_finish(self) ==
    IF Lex_is_error(self) THEN self
    ELSE LET Emitted(s1) ==
                 IF s1.panicked THEN s1
                 ELSE IF s1.cursor < Len(s1.input)
                 THEN [s1 EXCEPT !.error = Some([message |-> "unexpected end of input",
                                                 position |-> s1.cursor])]
                 ELSE s1
         IN Emitted(Lex_emit(self))

\* returns <<lexer after the call, returned Option<Lexeme>>>
Lex_get(self) ==
    IF Len(self.output) > 0
    THEN <<[self EXCEPT !.output = Tail(self.output)], Some(Head(self.output))>>
    ELSE <<self, None>>

(***************************************************************************)
(* src/lexer/nfa.rs : NfaBuilder, Nfa<T> and NfaRunner, the automaton of   *)
(* the lexer/ draft built from the IR terms of src/lexer/regex.rs.  An     *)
(* NfaBuilder is its only field, the Nfa; an edge is <<lo, hi, to, out>>;  *)
(* `panicked` is set when an operation unwinds on an index out of bounds.  *)
(* Loops whose number of turns is known beforehand are evaluated by        *)
(* halving, so that the evaluation nests only logarithmically.             *)
(***************************************************************************)
NfaT_new ==
    [start |-> <<>>, accept |-> <<>>, edges |-> <<>>, epsilons |-> <<>>,
     panicked |-> FALSE]

NfaT_panic(n) == [n EXCEPT !.panicked = TRUE]

NfaT_node_count(n) == Len(n.edges)

NfaT_ensure_node(n, state) ==
    IF n.panicked \/ state < Len(n.edges) THEN n
    ELSE [n EXCEPT
            !.edges = @ \o [i \in 1..(state + 1 - Len(n.edges)) |-> <<>>],
            !.epsilons = @ \o [i \in 1..(state + 1 - Len(n.epsilons)) |-> <<>>]]

\* the new node is NfaT_node_count(n)
NfaT_node(n) == NfaT_ensure_node(n, Len(n.edges))

NfaT_ensure_nodes(n, states) == NfaT_ensure_node(n, SetMax(SeqRange(states)))

NfaT_epsilon(n, from, to) ==
    LET PushTo(n1) ==
            IF n1.panicked THEN n1
            ELSE [n1 EXCEPT !.epsilons[from + 1] = Append(@, to)]
    IN PushTo(NfaT_ensure_nodes(n, <<from, to>>))

NfaT_overlaps(lo1, hi1, lo2, hi2) ==
    (lo1 <= lo2 /\ lo2 <= hi1) \/ (lo1 <= hi2 /\ hi2 <= hi1)

NfaT_edge(n, from, to, lo, hi, output) ==
    IF n.panicked \/ lo > hi THEN n
    ELSE LET PushEdge(n2, at) ==
                 [n2 EXCEPT !.edges[at + 1] = Append(@, <<lo, hi, to, output>>)]
             Add(n1) ==
                 IF \E k \in 1..Len(n1.edges[from + 1]) :
                        NfaT_overlaps(lo, hi, n1.edges[from + 1][k][1],
                                      n1.edges[from + 1][k][2])
                 THEN PushEdge(NfaT_epsilon(NfaT_node(n1), from, Len(n1.edges)),
                               Len(n1.edges))
                 ELSE PushEdge(n1, from)
         IN Add(NfaT_ensure_nodes(n, <<from, to>>))

NfaT_set_start(n, state) ==
    IF n.panicked THEN n ELSE [n EXCEPT !.start = Append(@, state)]

NfaT_set_accept(n, state) ==
    IF n.panicked THEN n ELSE [n EXCEPT !.accept = Append(@, state)]

\* Vec::swap_remove(i)
SwapRemove(s, i) ==
    [k \in 1..(Len(s) - 1) |-> IF k = i + 1 THEN s[Len(s)] ELSE s[k]]

NfaT_remove_node(n, deleted) ==
    IF n.panicked THEN n
    ELSE IF ~(deleted < Len(n.edges)) THEN NfaT_panic(n)
    ELSE
    LET old_id == Len(n.edges) - 1
        new_id == deleted
        Rename(to) == IF to = old_id THEN new_id ELSE to
        Ids(s) == LET kept == SelectSeq(s, LAMBDA x : x # deleted)
                  IN [k \in 1..Len(kept) |-> Rename(kept[k])]
        Edges(s) == LET kept == SelectSeq(s, LAMBDA e : e[3] # deleted)
                    IN [k \in 1..Len(kept) |->
                           <<kept[k][1], kept[k][2], Rename(kept[k][3]), kept[k][4]>>]
        edges1 == SwapRemove(n.edges, deleted)
        epsilons1 == SwapRemove(n.epsilons, deleted)
    IN [start |-> Ids(n.start),
        accept |-> Ids(n.accept),
        edges |-> [k \in 1..Len(edges1) |-> Edges(edges1[k])],
        epsilons |-> [k \in 1..Len(epsilons1) |-> Ids(epsilons1[k])],
        panicked |-> FALSE]

\* one call of a recorded sequence of calls on the Nfa; "bypass" is the body
\* of the inner loop of try_remove_epsilon_node
NfaT_call(n, call) ==
    CASE call[1] = "edge" ->
            NfaT_edge(n, call[2], call[3], call[4], call[5], call[6])
      [] call[1] = "epsilon" -> NfaT_epsilon(n, call[2], call[3])
      [] call[1] = "bypass" ->
            IF call[2] # call[3] /\ call[3] \notin SeqRange(n.epsilons[call[2] + 1])
            THEN NfaT_epsilon(n, call[2], call[3])
            ELSE n
      [] call[1] = "remove_node" -> NfaT_remove_node(n, call[2])

\* the calls lo..hi of the sequence, in order
RECURSIVE NfaT_calls(_, _, _, _)
NfaT_calls(n, calls, lo, hi) ==
    IF n.panicked \/ lo > hi THEN n
    ELSE IF lo = hi THEN NfaT_call(n, calls[lo])
    ELSE NfaT_calls(NfaT_calls(n, calls, lo, (lo + hi) \div 2),
                    calls, (lo + hi) \div 2 + 1, hi)

\* the edge and epsilon calls merge makes for the nodes lo..hi of `other`
RECURSIVE NfaBuilder_merge_calls(_, _, _, _)
NfaBuilder_merge_calls(other, base, lo, hi) ==
    IF lo > hi THEN <<>>
    ELSE IF lo = hi
    THEN [k \in 1..Len(other.edges[lo + 1]) |->
              <<"edge", base + lo, base + other.edges[lo + 1][k][3],
                other.edges[lo + 1][k][1], other.edges[lo + 1][k][2],
                other.edges[lo + 1][k][4]>>]
         \o [k \in 1..Len(other.epsilons[lo + 1]) |->
              <<"epsilon", base + lo, base + other.epsilons[lo + 1][k]>>]
    ELSE NfaBuilder_merge_calls(other, base, lo, (lo + hi) \div 2)
         \o NfaBuilder_merge_calls(other, base, (lo + hi) \div 2 + 1, hi)

\* returns the builder; other_start is the node count of self before the call
\* and other_accept the node after it
NfaBuilder_merge(self, other) ==
    IF self.panicked THEN self
    ELSE IF other.panicked THEN other
    ELSE LET other_start == NfaT_node_count(self)
             other_accept == other_start + 1
             base == other_start + 2
             Run(calls) ==
                 NfaT_calls(
                     NfaT_ensure_node(self, base + NfaT_node_count(other) - 1),
                     calls, 1, Len(calls))
         IN Run(NfaBuilder_merge_calls(other, base, 0, NfaT_node_count(other) - 1)
                \o [k \in 1..Len(other.start) |->
                       <<"epsilon", other_start, base + other.start[k]>>]
                \o [k \in 1..Len(other.accept) |->
                       <<"epsilon", base + other.accept[k], other_accept>>])

\* the builder after `start = node(); accept = node()`: start is 0, accept is 1
NfaBuilder_two_nodes == NfaT_node(NfaT_node(NfaT_new))

NfaBuilder_start_accept(b) == NfaT_set_accept(NfaT_set_start(b, 0), 1)

RECURSIVE NfaBuilder_from_regex_inner(_, _)
NfaBuilder_from_regex_inner(r, out) ==
    CASE r.node[1] = "Empty" -> NfaBuilder_start_accept(NfaBuilder_two_nodes)
      [] r.node[1] = "Epsilon" ->
            NfaBuilder_start_accept(NfaT_epsilon(NfaBuilder_two_nodes, 0, 1))
      [] r.node[1] = "Range" ->
            NfaBuilder_start_accept(
                NfaT_edge(NfaBuilder_two_nodes, 0, 1, r.node[2], r.node[3], out))
      [] r.node[1] = "Concat" ->
            LET Link(ma, mb) ==
                    NfaT_calls(mb,
                        <<<<"epsilon", 0, 2>>,
                          <<"epsilon", 3, NfaT_node_count(ma)>>,
                          <<"epsilon", NfaT_node_count(ma) + 1, 1>>>>, 1, 3)
                MergeB(ma, nfa_b) == Link(ma, NfaBuilder_merge(ma, nfa_b))
                Built(nfa_a, nfa_b) ==
                    IF nfa_a.panicked THEN nfa_a
                    ELSE IF nfa_b.panicked THEN nfa_b
                    ELSE NfaBuilder_start_accept(
                            MergeB(NfaBuilder_merge(NfaBuilder_two_nodes, nfa_a), nfa_b))
            IN Built(NfaBuilder_from_regex_inner(r.node[2], out),
                     NfaBuilder_from_regex_inner(r.node[3], out))
      [] r.node[1] = "Union" ->
            LET Link(ma, mb) ==
                    NfaT_calls(mb,
                        <<<<"epsilon", 0, 2>>,
                          <<"epsilon", 0, NfaT_node_count(ma)>>,
                          <<"epsilon", 3, 1>>,
                          <<"epsilon", NfaT_node_count(ma) + 1, 1>>>>, 1, 4)
                MergeB(ma, nfa_b) == Link(ma, NfaBuilder_merge(ma, nfa_b))
                Built(nfa_a, nfa_b) ==
                    IF nfa_a.panicked THEN nfa_a
                    ELSE IF nfa_b.panicked THEN nfa_b
                    ELSE NfaBuilder_start_accept(
                            MergeB(NfaBuilder_merge(NfaBuilder_two_nodes, nfa_a), nfa_b))
            IN Built(NfaBuilder_from_regex_inner(r.node[2], out),
                     NfaBuilder_from_regex_inner(r.node[3], out))
      [] r.node[1] = "Star" ->
            LET Built(nfa_a) ==
                    IF nfa_a.panicked THEN nfa_a
                    ELSE NfaBuilder_start_accept(
                            NfaT_calls(NfaBuilder_merge(NfaBuilder_two_nodes, nfa_a),
                                <<<<"epsilon", 0, 2>>, <<"epsilon", 0, 1>>,
                                  <<"epsilon", 3, 2>>, <<"epsilon", 3, 1>>>>, 1, 4))
            IN Built(NfaBuilder_from_regex_inner(r.node[2], out))

\* returns [nfa, changed]
NfaT_try_remove_epsilon_node(n, state) ==
    IF n.panicked THEN [nfa |-> n, changed |-> FALSE]
    ELSE IF ~(state < Len(n.edges)) THEN [nfa |-> NfaT_panic(n), changed |-> FALSE]
    ELSE IF n.edges[state + 1] # <<>> THEN [nfa |-> n, changed |-> FALSE]
    ELSE IF \E i \in 1..Len(n.edges) : \E k \in 1..Len(n.edges[i]) :
                n.edges[i][k][3] = state
    THEN [nfa |-> n, changed |-> FALSE]
    ELSE LET Removed(n1) ==
                 IF n1 # n
                 THEN [nfa |-> NfaT_remove_node(n1, state), changed |-> TRUE]
                 ELSE [nfa |-> n, changed |-> FALSE]
             Bypass(epsilons_from, epsilons_to) ==
                 Removed(NfaT_calls(n,
                     [p \in 1..(Len(epsilons_from) * Len(epsilons_to)) |->
                         <<"bypass",
                           epsilons_from[(p - 1) \div Len(epsilons_to) + 1],
                           epsilons_to[((p - 1) % Len(epsilons_to)) + 1]>>],
                     1, Len(epsilons_from) * Len(epsilons_to)))
         IN Bypass(SortedSeqOf({i \in 0..(Len(n.epsilons) - 1) :
                                   state \in SeqRange(n.epsilons[i + 1])}),
                   n.epsilons[state + 1])

\* one turn of the loop of optimize_remove_epsilon_nodes: the first node that
\* try_remove_epsilon_node removes is removed
NfaT_remove_first_epsilon_node(n) ==
    IF n.panicked THEN n
    ELSE LET First(hits) ==
                 IF hits = {} THEN n
                 ELSE NfaT_try_remove_epsilon_node(n, SetMin(hits)).nfa
         IN First({i \in 0..(NfaT_node_count(n) - 1) :
                      NfaT_try_remove_epsilon_node(n, i).changed})

\* 2^j turns of that loop; a turn that removes nothing changes nothing
RECURSIVE NfaT_remove_epsilon_nodes_turns(_, _)
NfaT_remove_epsilon_nodes_turns(n, j) ==
    IF j = 0 THEN NfaT_remove_first_epsilon_node(n)
    ELSE LET Half(n1) ==
                 IF n1.panicked THEN n1
                 ELSE NfaT_remove_epsilon_nodes_turns(n1, j - 1)
         IN Half(NfaT_remove_epsilon_nodes_turns(n, j - 1))

\* every turn but the last removes a node, so the loop makes at most
\* node_count + 1 turns
NfaT_optimize_remove_epsilon_nodes(n) ==
    IF n.panicked THEN [nfa |-> n, changed |-> FALSE]
    ELSE LET Looped(n1) == [nfa |-> n1, changed |-> n1 # n]
         IN Looped(NfaT_remove_epsilon_nodes_turns(n,
                CHOOSE j \in 0..NfaT_node_count(n) : 2 ^ j > NfaT_node_count(n)
                    /\ \A i \in 0..(j - 1) : 2 ^ i <= NfaT_node_count(n)))

NfaT_optimize_deduplicate(n) ==
    IF n.panicked THEN [nfa |-> n, changed |-> FALSE]
    ELSE [nfa |-> [n EXCEPT !.start = sort_dedup(@), !.accept = sort_dedup(@)],
          changed |-> \/ Len(n.start) # Len(sort_dedup(n.start))
                      \/ Len(n.accept) # Len(sort_dedup(n.accept))]

\* the stack is never seeded, so the walk adds nothing and each list is only
\* sorted and deduplicated
NfaT_optimize_epsilon_closure(n) ==
    IF n.panicked THEN [nfa |-> n, changed |-> FALSE]
    ELSE [nfa |-> [n EXCEPT !.epsilons = [i \in 1..Len(n.epsilons) |->
                                             sort_dedup(n.epsilons[i])]],
          changed |-> \E i \in 1..Len(n.epsilons) :
                         Len(n.epsilons[i]) # Len(sort_dedup(n.epsilons[i]))]

\* the nodes the walk of is_reachable marks visited (all ids in bounds)
RECURSIVE NfaT_visited(_, _, _)
NfaT_visited(n, stack, visited) ==
    IF stack \subseteq visited THEN visited
    ELSE NfaT_visited(n,
            UNION {{n.edges[s + 1][k][3] : k \in 1..Len(n.edges[s + 1])}
                   \cup SeqRange(n.epsilons[s + 1]) : s \in stack \ visited},
            visited \cup stack)

\* is_reachable(from, to) where both are nodes of n
NfaT_is_reachable(n, from, to) == to \in NfaT_visited(n, {from}, {})

\* `ids.iter().any(|&a| self.is_reachable(..))` where is_reachable unwinds on
\* an entry of ids that is not a node of n, and holds for the nodes in hit:
\* "yes", "no" or "panic"
NfaT_any(n, ids, hit) ==
    LET bad == {k \in 1..Len(ids) : ~(ids[k] < Len(n.edges))}
        good == {k \in 1..Len(ids) : ids[k] \in hit}
    IN IF good # {} /\ (bad = {} \/ SetMin(good) < SetMin(bad)) THEN "yes"
       ELSE IF bad # {} THEN "panic"
       ELSE "no"

\* the removal of the nodes i whose verdict[i + 1] is "no", the highest first:
\* `for e in deleted.iter().rev() { self.remove_node(*e) }`; unwinds on "panic"
NfaT_sweep(n, verdict) ==
    IF \E i \in 1..Len(verdict) : verdict[i] = "panic"
    THEN [nfa |-> NfaT_panic(n), changed |-> FALSE]
    ELSE LET Swept(deleted) ==
                 [nfa |-> NfaT_calls(n,
                            [k \in 1..Len(deleted) |->
                                <<"remove_node", deleted[Len(deleted) + 1 - k]>>],
                            1, Len(deleted)),
                  changed |-> deleted # <<>>]
         IN Swept(SortedSeqOf({i \in 0..(Len(verdict) - 1) : verdict[i + 1] = "no"}))

NfaT_optimize_remove_unreachable(n) ==
    IF n.panicked THEN [nfa |-> n, changed |-> FALSE]
    ELSE NfaT_sweep(n,
            [i \in 1..NfaT_node_count(n) |->
                NfaT_any(n, n.start,
                    {a \in SeqRange(n.start) :
                        a < NfaT_node_count(n) /\ NfaT_is_reachable(n, a, i - 1)})])

NfaT_optimize_remove_dead_nodes(n) ==
    IF n.panicked THEN [nfa |-> n, changed |-> FALSE]
    ELSE NfaT_sweep(n,
            [i \in 1..NfaT_node_count(n) |->
                NfaT_any(n, n.accept,
                    {a \in SeqRange(n.accept) :
                        a < NfaT_node_count(n) /\ NfaT_is_reachable(n, i - 1, a)})])

NfaT_optimize_start(n) ==
    IF n.panicked THEN [nfa |-> n, changed |-> FALSE]
    ELSE IF \E k \in 1..Len(n.start) : ~(n.start[k] < Len(n.epsilons))
    THEN [nfa |-> NfaT_panic(n), changed |-> FALSE]
    ELSE LET Grown(start) ==
                 [nfa |-> [n EXCEPT !.start = start],
                  changed |-> Len(start) # Len(n.start)]
         IN Grown(SortedSeqOf(SeqRange(n.start)
                \cup UNION {SeqRange(n.epsilons[s + 1]) : s \in SeqRange(n.start)}))

NfaT_pass(n, name) ==
    CASE name = "optimize_deduplicate" -> NfaT_optimize_deduplicate(n)
      [] name = "optimize_epsilon_closure" -> NfaT_optimize_epsilon_closure(n)
      [] name = "optimize_remove_epsilon_nodes" -> NfaT_optimize_remove_epsilon_nodes(n)
      [] name = "optimize_remove_unreachable" -> NfaT_optimize_remove_unreachable(n)
      [] name = "optimize_remove_dead_nodes" -> NfaT_optimize_remove_dead_nodes(n)
      [] name = "optimize_start" -> NfaT_optimize_start(n)

\* `while $self.$name() { $changed = true; }` ; returns [nfa, changed]
RECURSIVE run_optimization(_, _, _)
run_optimization(n, name, changed) ==
    LET Again(r) ==
            IF r.changed THEN run_optimization(r.nfa, name, TRUE)
            ELSE [nfa |-> r.nfa, changed |-> changed]
    IN Again(NfaT_pass(n, name))

NfaT_passes ==
    <<"optimize_deduplicate", "optimize_epsilon_closure",
      "optimize_remove_epsilon_nodes", "optimize_remove_unreachable",
      "optimize_remove_dead_nodes", "optimize_start">>

\* one turn of the loop of optimize, from pass k on
RECURSIVE NfaT_optimize_turn(_, _, _)
NfaT_optimize_turn(n, k, changed) ==
    IF n.panicked \/ k > Len(NfaT_passes) THEN [nfa |-> n, changed |-> changed]
    ELSE LET Then(r) == NfaT_optimize_turn(r.nfa, k + 1, r.changed)
         IN Then(run_optimization(n, NfaT_passes[k], changed))

RECURSIVE NfaT_optimize(_)
NfaT_optimize(n) ==
    LET Turn(r) == IF r.changed THEN NfaT_optimize(r.nfa) ELSE r.nfa
    IN Turn(NfaT_optimize_turn(n, 1, FALSE))

NfaBuilder_build(self) == NfaT_optimize(self)

NfaBuilder_from_regex(regex, out) ==
    NfaBuilder_build(NfaBuilder_from_regex_inner(regex, out))

NfaRunner_new(n) == [nfa |-> n, states |-> n.start, output |-> None]

NfaRunner_reset(self) == [self EXCEPT !.states = self.nfa.start]

\* `output` is the value step returned
NfaRunner_step(self, c) ==
    IF self.nfa.panicked THEN self
    ELSE
    LET taken == {e \in UNION {SeqRange(self.nfa.edges[s + 1]) :
                                  s \in SeqRange(self.states)} :
                     e[1] <= c /\ c <= e[2]}
    IN [self EXCEPT
          !.states = SortedSeqOf(UNION {{e[3]} \cup SeqRange(self.nfa.epsilons[e[3] + 1]) :
                                           e \in taken}),
          !.output = IF taken = {} THEN None
                     ELSE Some(SetMax({e[4] : e \in taken}))]

NfaRunner_is_accept(self) ==
    \E k \in 1..Len(self.states) : self.states[k] \in SeqRange(self.nfa.accept)

NfaRunner_is_dead(self) ==
    \/ self.states = <<>>
    \/ \A i \in 1..Len(self.nfa.edges) : self.nfa.edges[i] = <<>>

(***************************************************************************)
(* Rule tables.  A regex is written as the tree of constructor calls the   *)
(* client makes (the two drafts share the constructor names); a table is   *)
(* the client's sequence of add_rule / set_start_mode calls.               *)
(***************************************************************************)
ch_a == 97
ch_b == 98
ch_c == 99

Alphabet == {ch_a, ch_b, ch_c}

MaxInput == 3

MaxResets == 1

AddRule(e, token, keep_span, from_mode, to_mode) ==
    [call |-> "add_rule", regex |-> e, token |-> token, keep_span |-> keep_span,
     from_mode |-> from_mode, to_mode |-> to_mode]

SetStartMode(mode) == [call |-> "set_start_mode", mode |-> mode]

ABC == <<"concat", <<"char", ch_a>>, <<"concat", <<"char", ch_b>>, <<"char", ch_c>>>>>>

\* every rule keeps its span; ties (A and B on "a"), a rule longer than the
\* others (C), a mode switch on S and back on F
Table1 ==
    << AddRule(<<"char", ch_a>>, "A", TRUE, "Initial", "Initial"),
       AddRule(<<"one_of", <<ch_a, ch_b>>>>, "B", TRUE, "Initial", "Initial"),
       AddRule(ABC, "C", TRUE, "Initial", "Initial"),
       AddRule(<<"char", ch_c>>, "S", TRUE, "Initial", "Secondary"),
       AddRule(<<"plus", <<"char", ch_a>>>>, "E", TRUE, "Secondary", "Secondary"),
       AddRule(<<"char", ch_b>>, "F", TRUE, "Secondary", "Initial"),
       SetStartMode("Initial") >>

\* nullable rules, spans dropped by some rules, no set_start_mode call
Table2 ==
    << AddRule(<<"star", <<"char", ch_b>>>>, "W", FALSE, "Initial", "Initial"),
       AddRule(<<"concat", <<"char", ch_a>>, <<"opt", <<"char", ch_c>>>>>>, "X", TRUE,
               "Initial", "Secondary"),
       AddRule(<<"none_of", <<ch_a, ch_b>>>>, "Y", FALSE, "Secondary", "Initial"),
       AddRule(<<"union", <<"char", ch_a>>, <<"range", ch_a, ch_b>>>>, "Z", TRUE,
               "Secondary", "Secondary") >>

\* the start mode is not the mode mentioned first; rule A accepts no prefix of
\* length one
Table3 ==
    << AddRule(<<"concat", <<"char", ch_a>>, <<"char", ch_b>>>>, "A", FALSE,
               "Initial", "Secondary"),
       AddRule(<<"plus", <<"one_of", <<ch_b, ch_c>>>>>>, "P", TRUE, "Secondary", "Initial"),
       AddRule(<<"char", ch_a>>, "Q", TRUE, "Secondary", "Secondary"),
       SetStartMode("Secondary") >>

\* a lexer as new returns it: no rules and no start mode
Table4 == <<>>

Tables == <<Table1, Table2, Table3, Table4>>

\* The regex terms the matchers are tested on.
Unary(op, L) == [i \in 1..Len(L) |-> <<op, L[i]>>]

Binary(op, L) ==
    [k \in 1..(Len(L) * Len(L)) |->
        <<op, L[((k - 1) \div Len(L)) + 1], L[((k - 1) % Len(L)) + 1]>>]

\* the character classes, with forbidden sets in any order and with repeats
Classes ==
    << <<"any">>, <<"range", ch_a, ch_b>>,
       <<"one_of", <<>>>>, <<"one_of", <<ch_a, ch_b>>>>, <<"one_of", <<ch_c, ch_a, ch_c>>>>,
       <<"none_of", <<>>>>, <<"none_of", <<ch_a>>>>, <<"none_of", <<ch_a, ch_b>>>>,
       <<"none_of", <<ch_b, ch_a>>>>, <<"none_of", <<ch_a, ch_a>>>>,
       <<"none_of", <<ch_a, ch_c>>>>, <<"none_of", <<ch_c, ch_a, ch_c>>>>,
       <<"none_of", <<CHAR_MIN>>>>, <<"none_of", <<CHAR_MAX>>>>,
       <<"none_of", <<CHAR_MIN, CHAR_MAX>>>>, <<"none_of", <<CHAR_MAX, ch_a, CHAR_MIN>>>> >>

Leaves == << <<"empty">>, <<"epsilon">>, <<"char", ch_a>>, <<"char", ch_b>>,
             <<"range", ch_b, ch_c>> >>

Nested ==
    << ABC,
       <<"star", <<"concat", <<"char", ch_a>>, <<"char", ch_b>>>>>>,
       <<"star", <<"union", <<"char", ch_a>>, <<"concat", <<"char", ch_b>>, <<"char", ch_c>>>>>>>>,
       <<"star", <<"star", <<"char", ch_a>>>>>>,
       <<"plus", <<"opt", <<"char", ch_a>>>>>>,
       <<"opt", <<"plus", <<"one_of", <<ch_b, ch_c>>>>>>>>,
       <<"concat", <<"star", <<"char", ch_a>>>>, <<"char", ch_b>>>>,
       <<"concat", <<"star", <<"char", ch_a>>>>, <<"star", <<"char", ch_b>>>>>>,
       <<"concat", <<"char", ch_a>>, <<"opt", <<"char", ch_c>>>>>>,
       <<"concat", <<"union", <<"char", ch_a>>, <<"epsilon">>>>, <<"char", ch_a>>>>,
       <<"union", <<"char", ch_a>>, <<"range", ch_a, ch_b>>>>,
       <<"union", <<"concat", <<"char", ch_a>>, <<"char", ch_b>>>>, <<"char", ch_a>>>>,
       <<"union", <<"star", <<"char", ch_a>>>>, <<"none_of", <<ch_a>>>>>>,
       <<"concat", <<"none_of", <<ch_a>>>>, <<"any">>>>,
       <<"concat", <<"empty">>, <<"star", <<"char", ch_a>>>>>>,
       <<"star", <<"concat", <<"char", ch_a>>, <<"empty">>>>>> >>

\* the regex terms under test: every class and leaf, every unary combinator
\* over the operands, every binary combinator over the leaves, and some deeper
\* terms
Operands ==
    Leaves \o << <<"any">>, <<"one_of", <<ch_a, ch_b>>>>, <<"none_of", <<ch_a>>>>,
                 <<"none_of", <<ch_b, ch_a>>>> >>

TermList ==
    Classes \o Leaves
    \o Unary("star", Operands) \o Unary("plus", Operands) \o Unary("opt", Operands)
    \o Binary("concat", Leaves) \o Binary("union", Leaves)
    \o Nested

\* the constructor calls of src/lexer/regex.rs for a regex tree
RECURSIVE Build(_)
Build(e) ==
    CASE e[1] = "empty" -> empty
      [] e[1] = "epsilon" -> epsilon
      [] e[1] = "any" -> any
      [] e[1] = "char" -> char(e[2])
      [] e[1] = "range" -> range(e[2], e[3])
      [] e[1] = "one_of" -> one_of(e[2])
      [] e[1] = "none_of" -> none_of(e[2])
      [] e[1] = "concat" -> concat(Build(e[2]), Build(e[3]))
      [] e[1] = "union" -> union(Build(e[2]), Build(e[3]))
      [] e[1] = "star" -> star(Build(e[2]))
      [] e[1] = "plus" -> plus(Build(e[2]))
      [] e[1] = "opt" -> opt(Build(e[2]))

RECURSIVE Lexer_configure(_, _, _)
Lexer_configure(self, calls, i) ==
    IF self.panicked \/ i > Len(calls) THEN self
    ELSE LET k == calls[i]
         IN Lexer_configure(
                IF k.call = "add_rule"
                THEN Lexer_add_rule(self, Build(k.regex), k.token, k.keep_span,
                                    k.from_mode, k.to_mode)
                ELSE Lexer_set_start_mode(self, k.mode),
                calls, i + 1)

RECURSIVE Lex_configure(_, _, _)
Lex_configure(self, calls, i) ==
    IF self.panicked \/ i > Len(calls) THEN self
    ELSE LET k == calls[i]
         IN Lex_configure(
                IF k.call = "add_rule"
                THEN Lex_add_rule(self, k.token, k.regex, k.from_mode, k.to_mode,
                                  k.keep_span)
                ELSE Lex_set_start_mode(self, k.mode),
                calls, i + 1)

\* "lexer" is src/lexer/lexer.rs, "lex" is src/lex/lexer.rs
Drafts == {"lexer", "lex"}

Configured(d, t) ==
    IF d = "lexer" THEN Lexer_configure(Lexer_new, Tables[t], 1)
    ELSE Lex_configure(Lex_new, Tables[t], 1)

(***************************************************************************)
(* src/sexpr.rs : the hand-written S-expression lexer.  A Lexer value is   *)
(* a record of the struct's fields plus `panicked`; a Token is a record of  *)
(* its kind and its String payload (None for the kinds without one).       *)
(* Characters are code points; buffer.len() counts bytes, which are the    *)
(* characters for the ASCII inputs used here.                              *)
(***************************************************************************)
Location_beginning == [position |-> 0, column |-> 1, line |-> 1]

Sexpr_new ==
    [mode |-> "Normal", buffer |-> <<>>,
     current |-> Location_beginning, start |-> Location_beginning,
     output |-> <<>>, error |-> None, panicked |-> FALSE]

\* Lexer::lex with the private helpers and the per-mode handlers it
\* dispatches to; `input` is the Option<char>
Sexpr_lex(self, input) ==
    LET Token(kind, payload) == [kind |-> kind, payload |-> payload]
        advance(s) ==
            [s EXCEPT !.current.position = @ + 1, !.current.column = @ + 1]
        commit(s) == [s EXCEPT !.start = s.current, !.buffer = <<>>]
        newline(s) == [s EXCEPT !.current.line = @ + 1, !.current.column = 1]
        change_modes(s, mode) == [s EXCEPT !.mode = mode]
        emit(s, token, should_advance) ==
            LET lexeme == [token |-> token, position |-> s.start.position,
                           length |-> Len(s.buffer),
                           line |-> s.start.line, column |-> s.start.column]
                s1 == [s EXCEPT !.output = Append(@, lexeme)]
            IN commit(IF should_advance THEN advance(s1) ELSE s1)
        skip(s) == commit(advance(s))
        save_and_advance(s, c) == advance([s EXCEPT !.buffer = Append(@, c)])
        \* ( ) [ ] { } ' ` , " ; space tab newline
        delimiter == {40, 41, 91, 93, 123, 125, 39, 96, 44, 34, 59, 32, 9, 10}
        lex_normal(s) ==
            IF input = None THEN change_modes(s, "EndOfStream")
            ELSE LET c == Unwrap(input)
                 IN CASE c = 40 -> emit(s, Token("LParen", None), TRUE)
                      [] c = 41 -> emit(s, Token("RParen", None), TRUE)
                      [] c = 91 -> emit(s, Token("LBracket", None), TRUE)
                      [] c = 93 -> emit(s, Token("RBracket", None), TRUE)
                      [] c = 123 -> emit(s, Token("LBrace", None), TRUE)
                      [] c = 125 -> emit(s, Token("RBrace", None), TRUE)
                      [] c = 39 -> emit(s, Token("Quote", None), TRUE)
                      [] c = 96 -> emit(s, Token("Backquote", None), TRUE)
                      [] c = 44 -> emit(s, Token("Comma", None), TRUE)
                      [] c = 34 -> change_modes(advance(s), "String")
                      [] c = 59 -> change_modes(skip(s), "Comment")
                      [] c \in {32, 9} -> skip(s)
                      [] c = 10 -> commit(newline(skip(s)))
                      [] c = 45 \/ c \in 48..57 ->
                            change_modes(save_and_advance(s, c), "Integer")
                      [] OTHER -> change_modes(save_and_advance(s, c), "Identifier")
        \* self.lex(input_opt) right after change_modes(LexerMode::Normal)
        lex_again(s) == IF IsSome(s.error) THEN s ELSE lex_normal(s)
        lex_string(s) ==
            IF input = None THEN [s EXCEPT !.error = Some("Unterminated string")]
            ELSE LET c == Unwrap(input)
                 IN CASE c = 34 ->
                            change_modes(emit(s, Token("String", Some(s.buffer)), TRUE),
                                         "Normal")
                      [] c = 92 -> change_modes(save_and_advance(s, c), "StringEscape")
                      [] c = 10 -> newline(save_and_advance(s, 10))
                      [] OTHER -> save_and_advance(s, c)
        lex_string_escape(s) ==
            IF input = None
            THEN [s EXCEPT !.error = Some("Unterminated string escape")]
            ELSE IF Unwrap(input) = 34
            THEN [s EXCEPT !.buffer = Append(@, 34), !.mode = "String"]
            ELSE [s EXCEPT !.error = Some("Invalid string escape")]
        lex_comment(s) ==
            IF input = Some(10) THEN change_modes(newline(skip(s)), "Normal")
            ELSE skip(s)
        lex_identifier(s) ==
            IF input = None THEN emit(s, Token("Identifier", Some(s.buffer)), TRUE)
            ELSE IF Unwrap(input) \in delimiter
            THEN lex_again(change_modes(
                     emit(s, Token("Identifier", Some(s.buffer)), FALSE), "Normal"))
            ELSE save_and_advance(s, Unwrap(input))
        lex_integer(s) ==
            IF input = None \/ Unwrap(input) \in delimiter
            THEN lex_again(change_modes(
                     emit(s, Token("Integer", Some(s.buffer)), FALSE), "Normal"))
            ELSE LET c == Unwrap(input)
                 IN CASE c \in 48..57 -> save_and_advance(s, c)
                      [] c = 46 -> change_modes(save_and_advance(s, 46), "Float")
                      [] c \in {101, 69} ->
                            change_modes(save_and_advance(s, 101), "FloatExpStart")
                      [] OTHER -> [s EXCEPT !.error = Some("Invalid integer")]
        lex_float(s) ==
            IF input = None \/ Unwrap(input) \in delimiter
            THEN lex_again(change_modes(
                     emit(s, Token("Float", Some(s.buffer)), FALSE), "Normal"))
            ELSE LET c == Unwrap(input)
                 IN CASE c \in 48..57 -> save_and_advance(s, c)
                      [] c \in {101, 69} ->
                            change_modes(save_and_advance(s, 101), "FloatExpStart")
                      [] OTHER -> [s EXCEPT !.error = Some("Invalid float")]
        lex_float_exp_start(s) ==
            IF input = None \/ Unwrap(input) \in delimiter
            THEN [s EXCEPT !.error = Some("Invalid float exponent start")]
            ELSE IF Unwrap(input) \in (48..57) \cup {43, 45}
            THEN change_modes(save_and_advance(s, Unwrap(input)), "FloatExp")
            ELSE [s EXCEPT !.error = Some("Invalid float exponent")]
        lex_float_exp(s) ==
            IF input = None THEN emit(s, Token("Float", Some(s.buffer)), TRUE)
            ELSE IF Unwrap(input) \in delimiter
            THEN lex_again(change_modes(
                     emit(s, Token("Float", Some(s.buffer)), FALSE), "Normal"))
            ELSE IF Unwrap(input) \in 48..57
            THEN save_and_advance(s, Unwrap(input))
            ELSE [s EXCEPT !.error = Some("Invalid float exponent")]
    IN IF IsSome(self.error) THEN self
       ELSE CASE self.mode = "Normal" -> lex_normal(self)
              [] self.mode = "String" -> lex_string(self)
              [] self.mode = "StringEscape" -> lex_string_escape(self)
              [] self.mode = "Comment" -> lex_comment(self)
              [] self.mode = "Identifier" -> lex_identifier(self)
              [] self.mode = "Integer" -> lex_integer(self)
              [] self.mode = "Float" -> lex_float(self)
              [] self.mode = "FloatExpStart" -> lex_float_exp_start(self)
              [] self.mode = "FloatExp" -> lex_float_exp(self)
              \* panic!("Lexer should not be called after end of stream")
              [] self.mode = "EndOfStream" -> [self EXCEPT !.panicked = TRUE]

Sexpr_update(self, input) == Sexpr_lex(self, Some(input))

Sexpr_finish(self) == Sexpr_lex(self, None)

\* lexemes.extend(self.output.drain(..)): <<lexer after the call, lexemes>>
Sexpr_take(self, lexemes) ==
    <<[self EXCEPT !.output = <<>>], lexemes \o self.output>>

(***************************************************************************)
(* src/utils/unique.rs : the process-wide id source.                       *)
(***************************************************************************)
\* static UNIQUE_COUNTER: AtomicU64 = AtomicU64::new(1)
UNIQUE_COUNTER_init == 1

\* faulty variant of fetch_add: the incremented value is not stored
fetch_add_not_stored(counter, val) == <<counter, counter>>

\* AtomicU64::fetch_add, one atomic step: <<the counter after it, the value
\* it returns>>.  The counter is 64 bits wide; the calls explored stay far
\* from the wrap-around.
fetch_add(counter, val) == <<counter + val, counter>>

(***************************************************************************)
(* src/lexer/dfa.rs : DfaBuilder, Dfa and DfaRunner.  A builder is a       *)
(* record of the struct's fields (the Dfa's start and states, state_map)   *)
(* plus `panicked`; an edge is <<lo, hi, to, output>>.                     *)
(***************************************************************************)
DfaBuilder_new ==
    [dfa |-> [start |-> 0, states |-> <<>>], state_map |-> <<>>, panicked |-> FALSE]

DfaBuilder_add_state(self, state) ==
    LET id == Len(self.dfa.states)
    IN [self EXCEPT
          !.state_map = [k \in (DOMAIN self.state_map) \cup {state} |->
                            IF k = state THEN id ELSE self.state_map[k]],
          !.dfa.states = Append(@, [accept |-> FALSE, edges |-> <<>>])]

\* the guard test of add_edge: the new lo or the new hi lies in lo..=hi
DfaBuilder_overlaps(lo, hi, guard) ==
    (lo <= guard[1] /\ guard[1] <= hi) \/ (lo <= guard[2] /\ guard[2] <= hi)

\* get_id(from), get_id(to): expect("invalid state identifier")
DfaBuilder_add_edge(self, from, to, guard, output) ==
    IF from \notin DOMAIN self.state_map \/ to \notin DOMAIN self.state_map
    THEN [self EXCEPT !.panicked = TRUE]
    ELSE LET f == self.state_map[from]
             t == self.state_map[to]
             edges == self.dfa.states[f + 1].edges
             \* push, then the stable sort_by_key on lo of a list that was sorted
             before == Cardinality({i \in 1..Len(edges) : edges[i][1] <= guard[1]})
         IN IF \E i \in 1..Len(edges) :
                  DfaBuilder_overlaps(edges[i][1], edges[i][2], guard)
            THEN [self EXCEPT !.panicked = TRUE]     \* "overlapping edge guards"
            ELSE [self EXCEPT !.dfa.states[f + 1].edges =
                     SubSeq(edges, 1, before)
                     \o <<<<guard[1], guard[2], t, output>>>>
                     \o SubSeq(edges, before + 1, Len(edges))]

DfaBuilder_set_start(self, state) ==
    IF state \notin DOMAIN self.state_map THEN [self EXCEPT !.panicked = TRUE]
    ELSE [self EXCEPT !.dfa.start = self.state_map[state]]

DfaBuilder_set_accept(self, state, accept) ==
    IF state \notin DOMAIN self.state_map THEN [self EXCEPT !.panicked = TRUE]
    ELSE [self EXCEPT !.dfa.states[self.state_map[state] + 1].accept = accept]

\* returns the Dfa; `panicked` tells that build unwound instead
DfaBuilder_build(self) ==
    [start |-> self.dfa.start, states |-> self.dfa.states,
     panicked |-> self.dfa.states = <<>>]

DfaRunner_new(dfa) == [state |-> Some(dfa.start), panicked |-> FALSE]

DfaRunner_reset(self, dfa) == [self EXCEPT !.state = Some(dfa.start)]

\* returns <<runner after the call, Result: Some(output) for Ok, None for Err>>;
\* states[state] with the start of a builder that never set it may be out of
\* bounds only for an empty Dfa, which build refuses
DfaRunner_next(self, dfa, c) ==
    IF ~IsSome(self.state) THEN <<self, None>>
    ELSE LET edges == dfa.states[Unwrap(self.state) + 1].edges
             hits == {i \in 1..Len(edges) : edges[i][1] <= c /\ c <= edges[i][2]}
         IN IF hits = {} THEN <<[self EXCEPT !.state = None], None>>
            ELSE LET first == edges[CHOOSE i \in hits : \A j \in hits : i <= j]
                 IN <<[self EXCEPT !.state = Some(first[3])], Some(first[4])>>

(***************************************************************************)
(* src/utils/graph.rs : Graph.  A graph is a record of the struct's fields *)
(* (vertices, map, next_id) plus `panicked`; a vertex is a record of its   *)
(* data and its edges, an edge a record of its data and target.  The map   *)
(* is a function from the ids it holds to indices (0-based).               *)
(***************************************************************************)
Graph_new == [vertices |-> <<>>, map |-> <<>>, next_id |-> 1, panicked |-> FALSE]

Graph_get_index(self, key) ==
    IF key \in DOMAIN self.map THEN Some(self.map[key]) ELSE None

\* returns <<graph, id of the new vertex>>; genid is `next_id`, then `next_id += 1`
Graph_add_vertex(self, data) ==
    <<[self EXCEPT
          !.next_id = @ + 1,
          !.vertices = Append(@, [data |-> data, edges |-> <<>>]),
          !.map = [k \in (DOMAIN self.map) \cup {self.next_id} |->
                      IF k = self.next_id THEN Len(self.vertices) ELSE self.map[k]]],
      self.next_id>>

Graph_add_edge(self, src, dst, data) ==
    IF ~IsSome(Graph_get_index(self, src)) THEN [self EXCEPT !.panicked = TRUE]
    ELSE IF ~(self.map[src] < Len(self.vertices)) THEN [self EXCEPT !.panicked = TRUE]
    ELSE [self EXCEPT !.vertices[self.map[src] + 1].edges =
                          Append(@, [data |-> data, target |-> dst])]

\* the graphs remove_vertex can leave: the loop over map.values_mut() stops
\* at the first entry that holds old_index, and the order in which a
\* HashMap hands out its entries is not fixed.  The entry of `deleted`
\* stays in the map.
Graph_remove_vertex(self, deleted) ==
    IF Len(self.vertices) = 0 \/ deleted \notin DOMAIN self.map
    THEN {[self EXCEPT !.panicked = TRUE]}
    ELSE IF ~(self.map[deleted] < Len(self.vertices))
    THEN {[self EXCEPT !.panicked = TRUE]}            \* swap_remove out of bounds
    ELSE LET old_index == Len(self.vertices) - 1
             deleted_index == self.map[deleted]
             new_index == deleted_index
             removed == [self EXCEPT !.vertices = SwapRemove(@, deleted_index)]
             hits == {k \in DOMAIN self.map : self.map[k] = old_index}
         IN IF hits = {} THEN {removed}
            ELSE {[removed EXCEPT !.map[k] = new_index] : k \in hits}

\* returns the Option<&Vertex> as `found`; `panicked` when the index is out
\* of bounds
Graph_get_vertex(self, vertex) ==
    IF ~IsSome(Graph_get_index(self, vertex)) THEN [panicked |-> FALSE, found |-> None]
    ELSE IF ~(self.map[vertex] < Len(self.vertices)) THEN [panicked |-> TRUE, found |-> None]
    ELSE [panicked |-> FALSE, found |-> Some(self.vertices[self.map[vertex] + 1])]

Graph_has_vertex(self, vertex) == IsSome(Graph_get_index(self, vertex))

(***************************************************************************)
(* The rule sets of the Lisp-like surface, as the sequences of calls their *)
(* builders make: turkey_lexer (src/lexer/turkey_lexer.rs, regexes of      *)
(* src/lexer/token.rs) on the derivative draft, small_lexer (the test      *)
(* fixture of src/lex/lexer.rs) on the NFA draft.  Characters are written  *)
(* as their code points.                                                   *)
(***************************************************************************)
\* Token has no String variant and Token::regex no arm for it
\* (src/lexer/token.rs:3-45): the last add_rule of turkey_lexer, the only
\* rule of mode String, is left out.
turkey_lexer ==
    LET regex_lparen == <<"char", 40>>
        regex_rparen == <<"char", 41>>
        \* one_of("`~!@#$%^&*-+=|:<>?/")
        ident_start ==
            <<"union",
              <<"union", <<"union", <<"empty">>, <<"range", 97, 122>>>>,
                <<"range", 65, 90>>>>,
              <<"one_of", <<96, 126, 33, 64, 35, 36, 37, 94, 38, 42, 45, 43, 61, 124, 58, 60, 62, 63, 47>>>>>>
        ident_continue ==
            <<"union", <<"union", <<"empty">>, <<"range", 48, 57>>>>, ident_start>>
        regex_identifier == <<"concat", ident_start, <<"star", ident_continue>>>>
        digit == <<"range", 48, 57>>
        sign == <<"one_of", <<45, 43>>>>                                 \* "-+"
        regex_integer == <<"concat", <<"opt", sign>>, <<"plus", digit>>>>
        dot == <<"char", 46>>
        fraction == regex_integer
        exponent ==
            <<"concat", <<"union", <<"char", 101>>, <<"char", 69>>>>,
              <<"plus", regex_integer>>>>
        regex_float ==
            <<"concat", regex_integer,
              <<"concat", dot, <<"concat", <<"opt", fraction>>, <<"opt", exponent>>>>>>>>
        regex_quote == <<"char", 39>>
        regex_double_quote == <<"char", 34>>
        regex_comma == <<"char", 44>>
        regex_dot == <<"char", 46>>
        regex_semicolon == <<"char", 59>>
        regex_comment == <<"star", <<"none_of", <<10>>>>>>
        regex_whitespace == <<"one_of", <<32, 9>>>>                          \* " \t"
        regex_newline == <<"char", 10>>
    IN << AddRule(regex_lparen, "LParen", FALSE, "Normal", "Normal"),
          AddRule(regex_rparen, "RParen", FALSE, "Normal", "Normal"),
          AddRule(regex_quote, "Quote", FALSE, "Normal", "Normal"),
          AddRule(regex_semicolon, "Semicolon", FALSE, "Normal", "Comment"),
          AddRule(regex_double_quote, "DoubleQuote", FALSE, "Normal", "String"),
          AddRule(regex_comma, "Comma", FALSE, "Normal", "Normal"),
          AddRule(regex_dot, "Dot", FALSE, "Normal", "Normal"),
          AddRule(regex_semicolon, "Semicolon", FALSE, "Normal", "Normal"),
          AddRule(regex_comment, "Comment", FALSE, "Comment", "Normal"),
          AddRule(regex_whitespace, "Whitespace", FALSE, "Normal", "Normal"),
          AddRule(regex_newline, "Newline", FALSE, "Normal", "Normal"),
          AddRule(regex_integer, "Integer", FALSE, "Normal", "Normal"),
          AddRule(regex_float, "Float", FALSE, "Normal", "Normal"),
          AddRule(regex_identifier, "Identifier", FALSE, "Normal", "Normal"),
          SetStartMode("Normal") >>

small_lexer ==
    LET lparen == <<"char", 40>>
        rparen == <<"char", 41>>
        semicolon == <<"char", 59>>
        whitespace == <<"star", <<"one_of", <<32, 9>>>>>>                    \* " \t"
        newline == <<"char", 10>>
        comment == <<"star", <<"none_of", <<10>>>>>>
    IN << SetStartMode("Default"),
          AddRule(lparen, "LParen", FALSE, "Default", "Default"),
          AddRule(rparen, "RParen", FALSE, "Default", "Default"),
          AddRule(semicolon, "Semicolon", FALSE, "Default", "Comment"),
          AddRule(whitespace, "Whitespace", FALSE, "Default", "Default"),
          AddRule(newline, "Newline", FALSE, "Default", "Default"),
          AddRule(comment, "Comment", TRUE, "Comment", "Default") >>

\* the surface rule sets, each with the draft its builder is written for
Surfaces ==
    << [draft |-> "lexer", calls |-> turkey_lexer],
       [draft |-> "lex", calls |-> small_lexer] >>

SurfaceConfigured(s) ==
    IF Surfaces[s].draft = "lexer" THEN Lexer_configure(Lexer_new, Surfaces[s].calls, 1)
    ELSE Lex_configure(Lex_new, Surfaces[s].calls, 1)

(***************************************************************************)
(* The state machine: one lexer object, built by draft `draft` from table  *)
(* `tbl`, driven by put / finish / get / reset.                            *)
(***************************************************************************)
VARIABLES
    draft, tbl,
    modes, current_mode, start_mode, input, cursor, position, output,
    last_accepted, error, map, panicked,
    fed,        \* the characters appended to the queue by put since the last reset
    emitted,    \* every lexeme pushed on the output queue since the last reset
    got,        \* the lexemes get has returned since the last reset
    finished,   \* finish has run since the last reset
    overrun,    \* put or finish has run after a finish since the last reset
    lastOp,     \* the public operation that ran last
    lastRet,    \* what the last get returned
    onError,    \* the sticky error was already set when the last operation began
    mode0,      \* current_mode after construction or after the last reset
    resets,     \* how many times reset has run
    term,       \* the matcher under test: index of its regex in TermList (0: none)
    matcher,    \* the derivative Matcher of src/lexer/regex.rs for that regex
    nfa,        \* the Nfa of src/lex/nfa.rs for that regex
    nfa0,       \* that Nfa as to_nfa returned it
    runner,     \* the NfaRunner of src/lexer/nfa.rs on the Nfa built from_regex
    word,       \* the characters fed to both matchers since they were built or reset
    mOp,        \* the matcher operation that ran last
    text,       \* the input being lexed: its index in Texts (0: any input)
    sexpr,      \* the Lexer of src/sexpr.rs
    source,     \* the characters fed to it by update
    chosen,     \* the pieces of input chosen so far: their indices in Pieces
    pending,    \* the characters of the last piece that are still to be fed
    actual,     \* the lexemes take has returned
    sexprOp,    \* the operation of the Lexer of src/sexpr.rs that ran last
    UNIQUE_COUNTER,  \* the static AtomicU64 of src/utils/unique.rs
    new_ids,    \* per thread: the new_id of its Unique::new call in progress
    ids,        \* per thread: the ids its calls of Unique::new have returned
    order,      \* the values fetch_add returned, in the order it took effect
    builder,    \* the DfaBuilder of src/lexer/dfa.rs, None once build consumed it
    dfa,        \* the Dfa that build returned
    dfaRunner,  \* the DfaRunner on that Dfa
    dfaResult,  \* what the last DfaRunner::next returned
    bnfa,       \* an Nfa of draft `draft` under the calls of its builder API
    bopt,       \* that Nfa after optimize, None before optimize is called
    graph,      \* the Graph of src/utils/graph.rs
    gref,       \* the vertices added to it and not removed, by id, and the ids removed
    codes,      \* the characters of the string given to none_of
    stepped,    \* the last call of the stepping functions: its argument and results
    complement, \* what none_of made of `codes` in both drafts
    scan        \* the scan loop of one put call, with the matchers left open

lexerVars == <<modes, current_mode, start_mode, input, cursor, position, output,
               last_accepted, error, map, panicked>>

historyVars == <<fed, emitted, got, finished, overrun, lastOp, lastRet, onError,
                 mode0, resets>>

matcherVars == <<term, matcher, nfa, nfa0, runner, word, mOp>>

vars == <<draft, tbl, modes, current_mode, start_mode, input, cursor, position,
          output, last_accepted, error, map, panicked,
          fed, emitted, got, finished, overrun, lastOp, lastRet, onError, mode0,
          resets, term, matcher, nfa, nfa0, runner, word, mOp, text,
          sexpr, source, chosen, pending, actual, sexprOp,
          UNIQUE_COUNTER, new_ids, ids, order,
          builder, dfa, dfaRunner, dfaResult, bnfa, bopt, graph, gref,
          codes, stepped, complement, scan>>

sexprVars == <<sexpr, source, chosen, pending, actual, sexprOp>>

uniqueVars == <<UNIQUE_COUNTER, new_ids, ids, order>>

dfaVars == <<builder, dfa, dfaRunner, dfaResult>>

builderVars == <<bnfa, bopt>>

graphVars == <<graph, gref>>

stepVars == <<codes, stepped, complement>>

scanVars == <<scan>>

otherVars == <<sexprVars, uniqueVars, dfaVars, builderVars, graphVars, stepVars, scanVars>>

\* the components a specification does not exercise stay as they are here
SexprIdle ==
    /\ sexpr = Sexpr_new
    /\ source = <<>>
    /\ chosen = <<>>
    /\ pending = <<>>
    /\ actual = <<>>
    /\ sexprOp = "none"

UniqueIdle ==
    /\ UNIQUE_COUNTER = UNIQUE_COUNTER_init
    /\ new_ids = <<>>
    /\ ids = <<>>
    /\ order = <<>>

BuilderIdle == bnfa = None /\ bopt = None

GraphIdle == graph = None /\ gref = None

StepIdle == codes = None /\ stepped = None /\ complement = None

ScanIdle == scan = None

DfaIdle ==
    /\ builder = None
    /\ dfa = None
    /\ dfaRunner = None
    /\ dfaResult = None

Self ==
    [modes |-> modes, current_mode |-> current_mode, start_mode |-> start_mode,
     input |-> input, cursor |-> cursor, position |-> position, output |-> output,
     last_accepted |-> last_accepted, error |-> error, map |-> map,
     panicked |-> panicked]

Becomes(r) ==
    /\ modes' = r.modes
    /\ current_mode' = r.current_mode
    /\ start_mode' = r.start_mode
    /\ input' = r.input
    /\ cursor' = r.cursor
    /\ position' = r.position
    /\ output' = r.output
    /\ last_accepted' = r.last_accepted
    /\ error' = r.error
    /\ map' = r.map
    /\ panicked' = r.panicked

\* the lexemes a call appended to the output queue
Pushed(before, after) == SubSeq(after.output, Len(before.output) + 1, Len(after.output))

Init ==
    /\ draft \in Drafts
    /\ tbl \in 1..Len(Tables)
    /\ \E r \in {Configured(draft, tbl)} :
          /\ modes = r.modes
          /\ current_mode = r.current_mode
          /\ start_mode = r.start_mode
          /\ input = r.input
          /\ cursor = r.cursor
          /\ position = r.position
          /\ output = r.output
          /\ last_accepted = r.last_accepted
          /\ error = r.error
          /\ map = r.map
          /\ panicked = r.panicked
          /\ mode0 = r.current_mode
    /\ fed = <<>>
    /\ emitted = <<>>
    /\ got = <<>>
    /\ finished = FALSE
    /\ overrun = FALSE
    /\ lastOp = "new"
    /\ lastRet = None
    /\ onError = FALSE
    /\ resets = 0
    /\ term = 0
    /\ matcher = None
    /\ nfa = None
    /\ nfa0 = None
    /\ runner = None
    /\ word = <<>>
    /\ mOp = "none"
    /\ text = 0
    /\ SexprIdle /\ UniqueIdle /\ DfaIdle /\ BuilderIdle /\ GraphIdle /\ StepIdle /\ ScanIdle

DoPut(self, ch) == IF draft = "lexer" THEN Lexer_put(self, ch) ELSE Lex_put(self, ch)

DoFinish(self) == IF draft = "lexer" THEN Lexer_finish(self) ELSE Lex_finish(self)

DoGet(self) == IF draft = "lexer" THEN Lexer_get(self) ELSE Lex_get(self)

DoReset(self) == IF draft = "lexer" THEN Lexer_reset(self) ELSE Lex_reset(self)

Put(ch) ==
    /\ ~panicked
    /\ Len(fed) < MaxInput
    /\ LET r == DoPut(Self, ch)
       IN /\ Becomes(r)
          /\ fed' = IF IsSome(error) THEN fed ELSE Append(fed, ch)
          /\ emitted' = emitted \o Pushed(Self, r)
    /\ overrun' = (overrun \/ finished)
    /\ lastOp' = "put"
    /\ lastRet' = None
    /\ onError' = IsSome(error)
    /\ UNCHANGED <<draft, tbl, text, got, finished, mode0, resets>>
    /\ UNCHANGED matcherVars
    /\ UNCHANGED otherVars

Finish ==
    /\ ~panicked
    /\ LET r == DoFinish(Self)
       IN /\ Becomes(r)
          /\ emitted' = emitted \o Pushed(Self, r)
    /\ finished' = TRUE
    /\ overrun' = (overrun \/ finished)
    /\ lastOp' = "finish"
    /\ lastRet' = None
    /\ onError' = IsSome(error)
    /\ UNCHANGED <<draft, tbl, text, fed, got, mode0, resets>>
    /\ UNCHANGED matcherVars
    /\ UNCHANGED otherVars

Get ==
    /\ ~panicked
    /\ LET r == DoGet(Self)
       IN /\ Becomes(r[1])
          /\ lastRet' = r[2]
          /\ got' = got \o r[2]
    /\ lastOp' = "get"
    /\ onError' = IsSome(error)
    /\ UNCHANGED <<draft, tbl, text, fed, emitted, finished, overrun, mode0, resets>>
    /\ UNCHANGED matcherVars
    /\ UNCHANGED otherVars

Reset ==
    /\ ~panicked
    /\ resets < MaxResets
    /\ resets' = resets + 1
    /\ LET r == DoReset(Self)
       IN /\ Becomes(r)
          /\ mode0' = r.current_mode
    /\ fed' = <<>>
    /\ emitted' = <<>>
    /\ got' = <<>>
    /\ finished' = FALSE
    /\ overrun' = FALSE
    /\ lastOp' = "reset"
    /\ lastRet' = None
    /\ onError' = IsSome(error)
    /\ UNCHANGED <<draft, tbl, text>>
    /\ UNCHANGED matcherVars
    /\ UNCHANGED otherVars

Next ==
    \/ \E ch \in Alphabet : Put(ch)
    \/ Finish
    \/ Get
    \/ Reset

Spec == Init /\ [][Next]_vars

(***************************************************************************)
(* The matchers on their own: one regex, realised as the derivative        *)
(* Matcher (src/lexer/regex.rs), as the optimised NFA of src/lex           *)
(* (src/lex/regex.rs to_nfa, src/lex/nfa.rs) and as the NfaRunner of       *)
(* src/lexer/nfa.rs, all fed the same characters and reset together.  The  *)
(* lexer object is left as constructed.                                    *)
(***************************************************************************)
Regex == TermList[term]

IsClass(e) == e[1] \in {"any", "range", "one_of", "none_of"}

\* the characters fed to a term: the alphabet, and for a character class the
\* two ends of the code-point domain as well
Feedable(e) == Alphabet \cup (IF IsClass(e) THEN {CHAR_MIN, CHAR_MAX} ELSE {})

MatcherInit ==
    /\ term \in 1..Len(TermList)
    /\ matcher = Matcher_new(Build(TermList[term]))
    /\ nfa0 = to_nfa(TermList[term])
    /\ nfa = nfa0
    /\ runner = NfaRunner_new(NfaBuilder_from_regex(Build(TermList[term]), term))
    /\ word = <<>>
    /\ mOp = "new"
    /\ draft = "lexer"
    /\ tbl = 1
    /\ \E r \in {Lexer_new} :
          /\ modes = r.modes
          /\ current_mode = r.current_mode
          /\ start_mode = r.start_mode
          /\ input = r.input
          /\ cursor = r.cursor
          /\ position = r.position
          /\ output = r.output
          /\ last_accepted = r.last_accepted
          /\ error = r.error
          /\ map = r.map
          /\ panicked = r.panicked
          /\ mode0 = r.current_mode
    /\ fed = <<>>
    /\ emitted = <<>>
    /\ got = <<>>
    /\ finished = FALSE
    /\ overrun = FALSE
    /\ lastOp = "new"
    /\ lastRet = None
    /\ onError = FALSE
    /\ resets = 0
    /\ text = 0
    /\ SexprIdle /\ UniqueIdle /\ DfaIdle /\ BuilderIdle /\ GraphIdle /\ StepIdle /\ ScanIdle

\* Matcher::put, Nfa::put and NfaRunner::step with the same character
MatcherPut(ch) ==
    /\ Len(word) < MaxInput
    /\ matcher' = Matcher_put(matcher, ch)
    /\ nfa' = Nfa_put(nfa, ch)
    /\ runner' = NfaRunner_step(runner, ch)
    /\ word' = Append(word, ch)
    /\ mOp' = "put"
    /\ UNCHANGED <<term, nfa0, draft, tbl, text, lexerVars, historyVars, otherVars>>

\* Matcher::reset, Nfa::reset and NfaRunner::reset; at most twice in a row
MatcherReset ==
    /\ mOp # "reset again"
    /\ matcher' = Matcher_reset(matcher)
    /\ nfa' = Nfa_reset(nfa)
    /\ runner' = NfaRunner_reset(runner)
    /\ word' = <<>>
    /\ mOp' = IF mOp = "reset" THEN "reset again" ELSE "reset"
    /\ UNCHANGED <<term, nfa0, draft, tbl, text, lexerVars, historyVars, otherVars>>

MatcherNext ==
    \/ \E ch \in Feedable(Regex) : MatcherPut(ch)
    \/ MatcherReset

MatcherSpec == MatcherInit /\ [][MatcherNext]_vars

(***************************************************************************)
(* The surface lexers on whole inputs: a lexer built by turkey_lexer or    *)
(* small_lexer is fed one of the texts below character by character; the   *)
(* client may call finish, get and reset at any point, as in the tests     *)
(* (reset, put every character, finish, get until None).                   *)
(***************************************************************************)
\* "  (  )  ", "\t (\t\t \t)", " ", "; this is a comment\n",
\* "(; this is a comment\n)", ";\n", "(;\n)", "1.1 11e10", "+11 -11.0 1",
\* and the input of test_large_string:
\* "(define (incr x) (+ x 1.1))\n(1 11 +11 -11 +11.0 -11.0 11e10)"
Texts ==
    << <<32, 32, 40, 32, 32, 41, 32, 32>>,
       <<9, 32, 40, 9, 9, 32, 9, 41>>,
       <<32>>,
       <<59, 32, 116, 104, 105, 115, 32, 105, 115, 32, 97, 32, 99, 111, 109, 109, 101, 110, 116,
          10>>,
       <<40, 59, 32, 116, 104, 105, 115, 32, 105, 115, 32, 97, 32, 99, 111, 109, 109, 101, 110,
          116, 10, 41>>,
       <<59, 10>>,
       <<40, 59, 10, 41>>,
       <<49, 46, 49, 32, 49, 49, 101, 49, 48>>,
       <<43, 49, 49, 32, 45, 49, 49, 46, 48, 32, 49>>,
       <<40, 100, 101, 102, 105, 110, 101, 32, 40, 105, 110, 99, 114, 32, 120, 41, 32, 40, 43,
          32, 120, 32, 49, 46, 49, 41, 41, 10, 40, 49, 32, 49, 49, 32, 43, 49, 49, 32, 45, 49, 49,
          32, 43, 49, 49, 46, 48, 32, 45, 49, 49, 46, 48, 32, 49, 49, 101, 49, 48, 41>> >>

Text == Texts[text]

SurfaceInit ==
    /\ text \in 1..Len(Texts)
    /\ tbl \in (Len(Tables) + 1)..(Len(Tables) + Len(Surfaces))
    /\ draft = Surfaces[tbl - Len(Tables)].draft
    /\ \E r \in {SurfaceConfigured(tbl - Len(Tables))} :
          /\ modes = r.modes
          /\ current_mode = r.current_mode
          /\ start_mode = r.start_mode
          /\ input = r.input
          /\ cursor = r.cursor
          /\ position = r.position
          /\ output = r.output
          /\ last_accepted = r.last_accepted
          /\ error = r.error
          /\ map = r.map
          /\ panicked = r.panicked
          /\ mode0 = r.current_mode
    /\ fed = <<>>
    /\ emitted = <<>>
    /\ got = <<>>
    /\ finished = FALSE
    /\ overrun = FALSE
    /\ lastOp = "new"
    /\ lastRet = None
    /\ onError = FALSE
    /\ resets = 0
    /\ term = 0
    /\ matcher = None
    /\ nfa = None
    /\ nfa0 = None
    /\ runner = None
    /\ word = <<>>
    /\ mOp = "none"
    /\ SexprIdle /\ UniqueIdle /\ DfaIdle /\ BuilderIdle /\ GraphIdle /\ StepIdle /\ ScanIdle

\* put of the next character of the text
SurfacePut ==
    /\ ~panicked
    /\ ~finished
    /\ Len(fed) < Len(Text)
    /\ LET r == DoPut(Self, Text[Len(fed) + 1])
       IN /\ Becomes(r)
          /\ fed' = IF IsSome(error) THEN fed ELSE Append(fed, Text[Len(fed) + 1])
          /\ emitted' = emitted \o Pushed(Self, r)
    /\ lastOp' = "put"
    /\ lastRet' = None
    /\ onError' = IsSome(error)
    /\ UNCHANGED <<draft, tbl, text, got, finished, overrun, mode0, resets>>
    /\ UNCHANGED matcherVars
    /\ UNCHANGED otherVars

SurfaceNext == SurfacePut \/ Finish \/ Get \/ Reset

SurfaceSpec == SurfaceInit /\ [][SurfaceNext]_vars

(***************************************************************************)
(* The hand-written S-expression lexer of src/sexpr.rs, driven as          *)
(* tests/lexer_randomizer.rs and the unit tests of src/sexpr.rs drive it:  *)
(* pieces of input are chosen one after the other, each is fed character   *)
(* by character through update, then finish, and take hands the lexemes    *)
(* over.  The other components stay idle.                                  *)
(***************************************************************************)
LexerIdle ==
    /\ draft = "lexer"
    /\ tbl = 1
    /\ \E r \in {Lexer_new} :
          /\ modes = r.modes
          /\ current_mode = r.current_mode
          /\ start_mode = r.start_mode
          /\ input = r.input
          /\ cursor = r.cursor
          /\ position = r.position
          /\ output = r.output
          /\ last_accepted = r.last_accepted
          /\ error = r.error
          /\ map = r.map
          /\ panicked = r.panicked
          /\ mode0 = r.current_mode
    /\ fed = <<>>
    /\ emitted = <<>>
    /\ got = <<>>
    /\ finished = FALSE
    /\ overrun = FALSE
    /\ lastOp = "new"
    /\ lastRet = None
    /\ onError = FALSE
    /\ resets = 0
    /\ text = 0

MatcherIdle ==
    /\ term = 0
    /\ matcher = None
    /\ nfa = None
    /\ nfa0 = None
    /\ runner = None
    /\ word = <<>>
    /\ mOp = "none"

idleVars == <<draft, tbl, text, lexerVars, historyVars, matcherVars>>

\* the tokens randomized_action draws from, each with the string
\* token_to_string gives it: ( ) [ ] { } ' ` , "string" identifier 1234 +1234
\* -1234 1234.1234 +1234.1234 -1234.1234 1e10 +1e10 -1e10 1.0e10 +1.0e10
\* -1.0e10 1.0e-10 +1.0e-10 -1.0e-10 1.0e+10 +1.0e+10 -1.0e+10
space ==
    <<
       [kind |-> "LParen", text |-> <<40>>],
       [kind |-> "RParen", text |-> <<41>>],
       [kind |-> "LBracket", text |-> <<91>>],
       [kind |-> "RBracket", text |-> <<93>>],
       [kind |-> "LBrace", text |-> <<123>>],
       [kind |-> "RBrace", text |-> <<125>>],
       [kind |-> "Quote", text |-> <<39>>],
       [kind |-> "Backquote", text |-> <<96>>],
       [kind |-> "Comma", text |-> <<44>>],
       [kind |-> "String", text |-> <<34, 115, 116, 114, 105, 110, 103, 34>>],
       [kind |-> "Identifier", text |-> <<105, 100, 101, 110, 116, 105, 102, 105, 101, 114>>],
       [kind |-> "Integer", text |-> <<49, 50, 51, 52>>],
       [kind |-> "Integer", text |-> <<43, 49, 50, 51, 52>>],
       [kind |-> "Integer", text |-> <<45, 49, 50, 51, 52>>],
       [kind |-> "Float", text |-> <<49, 50, 51, 52, 46, 49, 50, 51, 52>>],
       [kind |-> "Float", text |-> <<43, 49, 50, 51, 52, 46, 49, 50, 51, 52>>],
       [kind |-> "Float", text |-> <<45, 49, 50, 51, 52, 46, 49, 50, 51, 52>>],
       [kind |-> "Float", text |-> <<49, 101, 49, 48>>],
       [kind |-> "Float", text |-> <<43, 49, 101, 49, 48>>],
       [kind |-> "Float", text |-> <<45, 49, 101, 49, 48>>],
       [kind |-> "Float", text |-> <<49, 46, 48, 101, 49, 48>>],
       [kind |-> "Float", text |-> <<43, 49, 46, 48, 101, 49, 48>>],
       [kind |-> "Float", text |-> <<45, 49, 46, 48, 101, 49, 48>>],
       [kind |-> "Float", text |-> <<49, 46, 48, 101, 45, 49, 48>>],
       [kind |-> "Float", text |-> <<43, 49, 46, 48, 101, 45, 49, 48>>],
       [kind |-> "Float", text |-> <<45, 49, 46, 48, 101, 45, 49, 48>>],
       [kind |-> "Float", text |-> <<49, 46, 48, 101, 43, 49, 48>>],
       [kind |-> "Float", text |-> <<43, 49, 46, 48, 101, 43, 49, 48>>],
       [kind |-> "Float", text |-> <<45, 49, 46, 48, 101, 43, 49, 48>>] >>

\* what the inputs of the unit tests add to them: a space, a newline, the
\* comment line "; c\n", the two-line string "a\nb" and the string "\""
\* with an escaped quote
fillers ==
    << [kind |-> "none", text |-> <<32>>],
       [kind |-> "none", text |-> <<10>>],
       [kind |-> "none", text |-> <<59, 32, 99, 10>>],
       [kind |-> "String", text |-> <<34, 97, 10, 98, 34>>],
       [kind |-> "String", text |-> <<34, 92, 34, 34>>] >>

\* the pieces of input: a token of `space` is followed by '(' as in
\* randomized_action, a filler stands alone
Pieces == space \o fillers

PieceText(p) == IF p <= Len(space) THEN Append(Pieces[p].text, 40) ELSE Pieces[p].text

\* the number of pieces of one input
MaxTokens == 2

SexprInit ==
    /\ LexerIdle /\ MatcherIdle /\ UniqueIdle /\ DfaIdle /\ BuilderIdle /\ GraphIdle /\ StepIdle /\ ScanIdle
    /\ sexpr = Sexpr_new
    /\ source = <<>>
    /\ chosen = <<>>
    /\ pending = <<>>
    /\ actual = <<>>
    /\ sexprOp = "new"

\* space.choose(&mut rng) and token_to_string: the next piece of the source
SexprChoose ==
    /\ sexprOp \in {"new", "update"}
    /\ pending = <<>>
    /\ Len(chosen) < MaxTokens
    /\ \E p \in 1..Len(Pieces) :
          /\ chosen' = Append(chosen, p)
          /\ pending' = PieceText(p)
    /\ UNCHANGED <<sexpr, source, actual, sexprOp>>
    /\ UNCHANGED <<idleVars, uniqueVars, dfaVars, builderVars, graphVars, stepVars, scanVars>>

\* lexer.update(c) with the next character of the piece
SexprUpdate ==
    /\ sexprOp \in {"new", "update"}
    /\ pending # <<>>
    /\ sexpr' = Sexpr_update(sexpr, Head(pending))
    /\ source' = Append(source, Head(pending))
    /\ pending' = Tail(pending)
    /\ sexprOp' = "update"
    /\ UNCHANGED <<chosen, actual>>
    /\ UNCHANGED <<idleVars, uniqueVars, dfaVars, builderVars, graphVars, stepVars, scanVars>>

\* lexer.finish() once the whole source is fed
SexprFinish ==
    /\ sexprOp \in {"new", "update"}
    /\ pending = <<>>
    /\ sexpr' = Sexpr_finish(sexpr)
    /\ sexprOp' = "finish"
    /\ UNCHANGED <<source, chosen, pending, actual>>
    /\ UNCHANGED <<idleVars, uniqueVars, dfaVars, builderVars, graphVars, stepVars, scanVars>>

\* lexer.take(&mut actual)
SexprTake ==
    /\ sexpr.output # <<>>
    /\ LET r == Sexpr_take(sexpr, actual)
       IN /\ sexpr' = r[1]
          /\ actual' = r[2]
    /\ UNCHANGED <<source, chosen, pending, sexprOp>>
    /\ UNCHANGED <<idleVars, uniqueVars, dfaVars, builderVars, graphVars, stepVars, scanVars>>

SexprNext == SexprChoose \/ SexprUpdate \/ SexprFinish \/ SexprTake

SexprSpec == SexprInit /\ [][SexprNext]_vars

(***************************************************************************)
(* Unique::new of src/utils/unique.rs called from parallel threads.  A     *)
(* call is two steps of its thread: the atomic fetch_add, then the return  *)
(* of the id built from the value fetched.  The other components stay      *)
(* idle.                                                                   *)
(***************************************************************************)
\* the number of threads
Threads == 3

\* the number of calls of Unique::new made by all threads together
MaxCalls == 4

\* NonZeroU64::new_unchecked: the values the call can produce; for 0 the
\* behaviour is undefined
NonZeroU64_new_unchecked(n) == IF n = 0 THEN 0..1 ELSE {n}

UniqueInit ==
    /\ LexerIdle /\ MatcherIdle /\ SexprIdle /\ DfaIdle /\ BuilderIdle /\ GraphIdle /\ StepIdle /\ ScanIdle
    /\ UNIQUE_COUNTER = UNIQUE_COUNTER_init
    /\ new_ids = [t \in 1..Threads |-> None]
    /\ ids = [t \in 1..Threads |-> <<>>]
    /\ order = <<>>

\* let new_id = UNIQUE_COUNTER.fetch_add(1, Ordering::Relaxed)
UniqueFetch(t) ==
    /\ new_ids[t] = None
    /\ Len(order) < MaxCalls
    /\ LET r == fetch_add(UNIQUE_COUNTER, 1)
       IN /\ UNIQUE_COUNTER' = r[1]
          /\ new_ids' = [new_ids EXCEPT ![t] = Some(r[2])]
          /\ order' = Append(order, r[2])
    /\ UNCHANGED ids
    /\ UNCHANGED <<idleVars, sexprVars, dfaVars, builderVars, graphVars, stepVars, scanVars>>

\* Self(NonZeroU64::new_unchecked(new_id)), returned to the caller
UniqueReturn(t) ==
    /\ new_ids[t] # None
    /\ \E id \in NonZeroU64_new_unchecked(Unwrap(new_ids[t])) :
          ids' = [ids EXCEPT ![t] = Append(@, id)]
    /\ new_ids' = [new_ids EXCEPT ![t] = None]
    /\ UNCHANGED <<UNIQUE_COUNTER, order>>
    /\ UNCHANGED <<idleVars, sexprVars, dfaVars, builderVars, graphVars, stepVars, scanVars>>

UniqueNext == \E t \in 1..Threads : UniqueFetch(t) \/ UniqueReturn(t)

UniqueSpec == UniqueInit /\ [][UniqueNext]_vars

(***************************************************************************)
(* A DfaBuilder of src/lexer/dfa.rs under its callers' calls (add_state,   *)
(* add_edge, set_start, set_accept, build), then a DfaRunner on the Dfa    *)
(* built.  State identifiers are drawn from StateIds, guards are the       *)
(* ranges over the alphabet, the output of an edge is the number of the    *)
(* add_edge call that made it.  The other components stay idle.            *)
(***************************************************************************)
StateIds == {1, 2}

\* the number of add_state calls and of add_edge calls on one builder
MaxStates == 2

MaxEdges == 2

Guards == {g \in Alphabet \X Alphabet : g[1] <= g[2]}

\* the number of edges of all states of a Dfa
EdgeCount(d) ==
    Cardinality(UNION {{<<i, j>> : j \in 1..Len(d.states[i].edges)} : i \in 1..Len(d.states)})

DfaInit ==
    /\ LexerIdle /\ MatcherIdle /\ SexprIdle /\ UniqueIdle /\ BuilderIdle /\ GraphIdle /\ StepIdle /\ ScanIdle
    /\ builder = Some(DfaBuilder_new)
    /\ dfa = None
    /\ dfaRunner = None
    /\ dfaResult = None

Building == builder # None /\ ~Unwrap(builder).panicked

DfaAddState ==
    /\ Building
    /\ Len(Unwrap(builder).dfa.states) < MaxStates
    /\ \E state \in StateIds :
          builder' = Some(DfaBuilder_add_state(Unwrap(builder), state))
    /\ UNCHANGED <<dfa, dfaRunner, dfaResult>>
    /\ UNCHANGED <<idleVars, sexprVars, uniqueVars, builderVars, graphVars, stepVars, scanVars>>

DfaAddEdge ==
    /\ Building
    /\ EdgeCount(Unwrap(builder).dfa) < MaxEdges
    /\ \E from \in StateIds, to \in StateIds, guard \in Guards :
          builder' = Some(DfaBuilder_add_edge(Unwrap(builder), from, to, guard,
                                              EdgeCount(Unwrap(builder).dfa) + 1))
    /\ UNCHANGED <<dfa, dfaRunner, dfaResult>>
    /\ UNCHANGED <<idleVars, sexprVars, uniqueVars, builderVars, graphVars, stepVars, scanVars>>

DfaSetStart ==
    /\ Building
    /\ \E state \in StateIds :
          builder' = Some(DfaBuilder_set_start(Unwrap(builder), state))
    /\ UNCHANGED <<dfa, dfaRunner, dfaResult>>
    /\ UNCHANGED <<idleVars, sexprVars, uniqueVars, builderVars, graphVars, stepVars, scanVars>>

DfaSetAccept ==
    /\ Building
    /\ \E state \in StateIds, accept \in BOOLEAN :
          builder' = Some(DfaBuilder_set_accept(Unwrap(builder), state, accept))
    /\ UNCHANGED <<dfa, dfaRunner, dfaResult>>
    /\ UNCHANGED <<idleVars, sexprVars, uniqueVars, builderVars, graphVars, stepVars, scanVars>>

\* build consumes the builder; DfaRunner::new on the Dfa it returned
DfaBuild ==
    /\ Building
    /\ builder' = None
    /\ dfa' = Some(DfaBuilder_build(Unwrap(builder)))
    /\ dfaRunner' = IF DfaBuilder_build(Unwrap(builder)).panicked THEN None
                    ELSE Some(DfaRunner_new(DfaBuilder_build(Unwrap(builder))))
    /\ dfaResult' = None
    /\ UNCHANGED <<idleVars, sexprVars, uniqueVars, builderVars, graphVars, stepVars, scanVars>>

DfaNext ==
    /\ dfaRunner # None
    /\ \E c \in Alphabet :
          LET r == DfaRunner_next(Unwrap(dfaRunner), Unwrap(dfa), c)
          IN /\ dfaRunner' = Some(r[1])
             /\ dfaResult' = r[2]
    /\ UNCHANGED <<builder, dfa>>
    /\ UNCHANGED <<idleVars, sexprVars, uniqueVars, builderVars, graphVars, stepVars, scanVars>>

DfaReset ==
    /\ dfaRunner # None
    /\ dfaRunner' = Some(DfaRunner_reset(Unwrap(dfaRunner), Unwrap(dfa)))
    /\ UNCHANGED <<builder, dfa, dfaResult>>
    /\ UNCHANGED <<idleVars, sexprVars, uniqueVars, builderVars, graphVars, stepVars, scanVars>>

DfaSpecNext ==
    DfaAddState \/ DfaAddEdge \/ DfaSetStart \/ DfaSetAccept \/ DfaBuild \/ DfaNext \/ DfaReset

DfaSpec == DfaInit /\ [][DfaSpecNext]_vars

(***************************************************************************)
(* An Nfa under the calls of its builder API, then optimize: the Nfa of    *)
(* src/lex/nfa.rs (create_node, add_edge, add_epsilon, add_start,          *)
(* add_accept, optimize) or the Nfa of src/lexer/nfa.rs (node, edge,       *)
(* epsilon, set_start, set_accept, optimize).  Node ids are drawn from     *)
(* 0..MaxNodes-1 whether or not the node exists, guards from               *)
(* BuilderGuards.  The other components stay idle.                         *)
(***************************************************************************)
\* the number of node ids
MaxNodes == 2

\* the number of edges, epsilons, start entries and accept entries together
MaxParts == 4

NodeIds == 0..(MaxNodes - 1)

BuilderGuards ==
    {<<ch_a, ch_a>>, <<ch_b, ch_b>>, <<ch_a, ch_b>>, <<ch_b, ch_c>>, <<ch_a, ch_c>>}

\* the Nfa is the one of src/lex/nfa.rs
IsLexNfa(n) == "nodes" \in DOMAIN n

NodeCount(n) == IF IsLexNfa(n) THEN Len(n.nodes) ELSE Len(n.edges)

NodeEdges(n, i) == IF IsLexNfa(n) THEN n.nodes[i + 1].edges ELSE n.edges[i + 1]

NodeEpsilons(n, i) == IF IsLexNfa(n) THEN n.nodes[i + 1].epsilons ELSE n.epsilons[i + 1]

RECURSIVE SumLen(_)
SumLen(ss) == IF ss = <<>> THEN 0 ELSE Len(Head(ss)) + SumLen(Tail(ss))

PartCount(n) ==
    Len(n.start) + Len(n.accept)
    + SumLen([i \in 1..NodeCount(n) |-> NodeEdges(n, i - 1)])
    + SumLen([i \in 1..NodeCount(n) |-> NodeEpsilons(n, i - 1)])

BuilderInit ==
    /\ LexerIdle /\ MatcherIdle /\ SexprIdle /\ UniqueIdle /\ DfaIdle /\ GraphIdle /\ StepIdle /\ ScanIdle
    /\ bnfa \in {Some(Nfa_new), Some(NfaT_new)}
    /\ bopt = None

BuilderOpen ==
    /\ bnfa # None
    /\ bopt = None
    /\ ~Unwrap(bnfa).panicked

BuilderNode ==
    /\ BuilderOpen
    /\ NodeCount(Unwrap(bnfa)) < MaxNodes
    /\ bnfa' = Some(IF IsLexNfa(Unwrap(bnfa)) THEN Nfa_create_node(Unwrap(bnfa))[1]
                    ELSE NfaT_node(Unwrap(bnfa)))
    /\ UNCHANGED <<bopt, idleVars, sexprVars, uniqueVars, dfaVars, graphVars, stepVars, scanVars>>

BuilderEdge ==
    /\ BuilderOpen
    /\ PartCount(Unwrap(bnfa)) < MaxParts
    /\ \E from \in NodeIds, to \in NodeIds, g \in BuilderGuards :
          bnfa' = Some(IF IsLexNfa(Unwrap(bnfa))
                       THEN Nfa_add_edge(Unwrap(bnfa), from, g[1], g[2], to)
                       ELSE NfaT_edge(Unwrap(bnfa), from, to, g[1], g[2], 0))
    /\ UNCHANGED <<bopt, idleVars, sexprVars, uniqueVars, dfaVars, graphVars, stepVars, scanVars>>

BuilderEpsilon ==
    /\ BuilderOpen
    /\ PartCount(Unwrap(bnfa)) < MaxParts
    /\ \E from \in NodeIds, to \in NodeIds :
          bnfa' = Some(IF IsLexNfa(Unwrap(bnfa))
                       THEN Nfa_add_epsilon(Unwrap(bnfa), from, to)
                       ELSE NfaT_epsilon(Unwrap(bnfa), from, to))
    /\ UNCHANGED <<bopt, idleVars, sexprVars, uniqueVars, dfaVars, graphVars, stepVars, scanVars>>

BuilderStart ==
    /\ BuilderOpen
    /\ PartCount(Unwrap(bnfa)) < MaxParts
    /\ \E state \in NodeIds :
          bnfa' = Some(IF IsLexNfa(Unwrap(bnfa)) THEN Nfa_add_start(Unwrap(bnfa), state)
                       ELSE NfaT_set_start(Unwrap(bnfa), state))
    /\ UNCHANGED <<bopt, idleVars, sexprVars, uniqueVars, dfaVars, graphVars, stepVars, scanVars>>

BuilderAccept ==
    /\ BuilderOpen
    /\ PartCount(Unwrap(bnfa)) < MaxParts
    /\ \E state \in NodeIds :
          bnfa' = Some(IF IsLexNfa(Unwrap(bnfa)) THEN Nfa_add_accept(Unwrap(bnfa), state)
                       ELSE NfaT_set_accept(Unwrap(bnfa), state))
    /\ UNCHANGED <<bopt, idleVars, sexprVars, uniqueVars, dfaVars, graphVars, stepVars, scanVars>>

BuilderOptimize ==
    /\ BuilderOpen
    /\ bopt' = Some(IF IsLexNfa(Unwrap(bnfa)) THEN Nfa_optimize(Unwrap(bnfa))
                    ELSE NfaT_optimize(Unwrap(bnfa)))
    /\ UNCHANGED <<bnfa, idleVars, sexprVars, uniqueVars, dfaVars, graphVars, stepVars, scanVars>>

BuilderNext ==
    BuilderNode \/ BuilderEdge \/ BuilderEpsilon \/ BuilderStart \/ BuilderAccept
    \/ BuilderOptimize

BuilderSpec == BuilderInit /\ [][BuilderNext]_vars

(***************************************************************************)
(* The code-point stepping functions and none_of of both drafts, applied   *)
(* to strings of at most MaxCodes characters drawn from StepPoints.  The   *)
(* other components stay idle.                                             *)
(***************************************************************************)
\* the number of characters of the string given to none_of
MaxCodes == 2

\* 0xD7FF and 0xE000, the code points next to the surrogate range
D7FF == 55295

E000 == 57344

\* char::MIN and its successor, two letters, the neighbours of the
\* surrogate range, char::MAX and its predecessor
StepPoints ==
    {CHAR_MIN, CHAR_MIN + 1, ch_a, ch_b, D7FF, E000,
     CHAR_MAX - 1, CHAR_MAX}

StepInit ==
    /\ codes = Some(<<>>)
    /\ stepped = None
    /\ complement = None
    /\ LexerIdle /\ MatcherIdle /\ SexprIdle /\ UniqueIdle /\ DfaIdle
    /\ BuilderIdle /\ GraphIdle /\ ScanIdle

\* one more character of the string
StepPush ==
    /\ stepped = None /\ complement = None
    /\ Len(Unwrap(codes)) < MaxCodes
    /\ \E c \in StepPoints : codes' = Some(Append(Unwrap(codes), c))
    /\ UNCHANGED <<stepped, complement, idleVars, sexprVars, uniqueVars, dfaVars,
                   builderVars, graphVars, scanVars>>

\* incr_char (src/lexer) and char_incr (src/lex) of the last character;
\* both assert that it is not char::MAX
StepIncr ==
    /\ stepped = None /\ complement = None
    /\ Unwrap(codes) # <<>>
    /\ LET c == Unwrap(codes)[Len(Unwrap(codes))]
       IN /\ c # CHAR_MAX
          /\ stepped' = Some([op |-> "incr", from |-> c,
                              lexer |-> incr_char(c), lex |-> char_incr(c)])
    /\ UNCHANGED <<codes, complement, idleVars, sexprVars, uniqueVars, dfaVars,
                   builderVars, graphVars, scanVars>>

\* decr_char (src/lexer) and char_decr (src/lex) of the last character;
\* both assert that it is not char::MIN
StepDecr ==
    /\ stepped = None /\ complement = None
    /\ Unwrap(codes) # <<>>
    /\ LET c == Unwrap(codes)[Len(Unwrap(codes))]
       IN /\ c # CHAR_MIN
          /\ stepped' = Some([op |-> "decr", from |-> c,
                              lexer |-> decr_char(c), lex |-> char_decr(c)])
    /\ UNCHANGED <<codes, complement, idleVars, sexprVars, uniqueVars, dfaVars,
                   builderVars, graphVars, scanVars>>

\* Regex::none_of (src/lexer) and to_nfa_none_of (src/lex) of the string
StepNoneOf ==
    /\ complement = None
    /\ complement' = Some([lexer |-> none_of(Unwrap(codes)),
                           lex |-> to_nfa_none_of(Unwrap(codes))])
    /\ UNCHANGED <<codes, stepped, idleVars, sexprVars, uniqueVars, dfaVars,
                   builderVars, graphVars, scanVars>>

StepNext == StepPush \/ StepIncr \/ StepDecr \/ StepNoneOf

StepSpec == StepInit /\ [][StepNext]_vars

(***************************************************************************)
(* The scan loop that put starts, in the three drafts of the lexer         *)
(* (src/lexer/lexer.rs, src/lex/lexer.rs and src/lexer.rs), with the rule  *)
(* table left open: at every step the matchers answer in any way a         *)
(* matcher can (some rule accepts, every rule is dead, or neither).  `scan`*)
(* holds the length of the input queue, the cursor, the length recorded in *)
(* last_accepted (`pending` in src/lexer.rs), the flag all_dead and the    *)
(* local last_accepted of src/lex, the number of emits, and whether the    *)
(* loop is still running.  The other components stay idle.                 *)
(***************************************************************************)
\* the length of the input queue when put calls lex
MaxQueue == 4

ScanDrafts == {"lexer/lexer.rs", "lex/lexer.rs", "lexer.rs"}

\* the loop goes on while the cursor is inside the queue
Scan_while(s) ==
    [s EXCEPT !.running = ~s.error /\ ~s.panicked /\ s.cursor < s.len]

\* Lexer::emit of src/lexer/lexer.rs
Scan_emit_lexer(s) ==
    IF IsSome(s.accepted)
    THEN [s EXCEPT !.len = @ - Unwrap(s.accepted), !.accepted = None, !.emits = @ + 1]
    ELSE [s EXCEPT !.error = TRUE]

\* Lexer::emit of src/lex/lexer.rs
Scan_emit_lex(s) ==
    IF ~IsSome(s.accepted) THEN [s EXCEPT !.error = TRUE, !.panicked = TRUE]
    ELSE IF Unwrap(s.accepted) > s.len THEN [s EXCEPT !.panicked = TRUE]
    ELSE [s EXCEPT !.len = @ - Unwrap(s.accepted), !.cursor = 0, !.accepted = None,
                   !.emits = @ + 1]

\* Lexer::emit of src/lexer.rs
Scan_emit_lexer_rs(s) ==
    IF IsSome(s.accepted)
    THEN IF Unwrap(s.accepted) > s.len THEN [s EXCEPT !.panicked = TRUE]
         ELSE [s EXCEPT !.len = @ - Unwrap(s.accepted), !.cursor = 0, !.accepted = None,
                        !.emits = @ + 1]
    ELSE [s EXCEPT !.panicked = TRUE]                      \* todo!("syntax error")

\* faulty variant of the turn of src/lexer/lexer.rs: the cursor stays where
\* it is when no emit is due
Scan_lex_lexer_stays(s, accepts, dead) ==
    LET s1 == [s EXCEPT !.accepted = IF accepts THEN Some(s.cursor + 1) ELSE @,
                        !.all_dead = @ /\ dead]
        Emitted(s2) == IF s2.error THEN s2 ELSE [s2 EXCEPT !.cursor = 0]
    IN Scan_while(IF s1.all_dead THEN Emitted(Scan_emit_lexer(s1)) ELSE s1)

\* one turn of the loop of Lexer::lex of src/lexer/lexer.rs; `accepts`: a
\* rule accepts after the character, `dead`: every rule is dead after it
Scan_lex_lexer(s, accepts, dead) ==
    LET s1 == [s EXCEPT !.accepted = IF accepts THEN Some(s.cursor + 1) ELSE @,
                        !.all_dead = @ /\ dead]
        Emitted(s2) == IF s2.error THEN s2 ELSE [s2 EXCEPT !.cursor = 0]
    IN Scan_while(IF s1.all_dead THEN Emitted(Scan_emit_lexer(s1))
                  ELSE [s1 EXCEPT !.cursor = @ + 1])

\* one turn of the loop of Lexer::lex of src/lex/lexer.rs
Scan_lex_lex(s, accepts, dead) ==
    LET s1 == [s EXCEPT !.local = IF accepts THEN Some(s.cursor + 1) ELSE @,
                        !.all_dead = @ /\ dead]
    IN Scan_while(IF s1.all_dead THEN Scan_emit_lex(s1)
                  ELSE [s1 EXCEPT !.accepted = IF IsSome(s1.local) THEN s1.local ELSE @,
                                  !.cursor = @ + 1])

\* one turn of the loop of Lexer::lex of src/lexer.rs
Scan_lex_lexer_rs(s, accepts, dead) ==
    LET s1 == [s EXCEPT !.cursor = @ + 1]
    IN Scan_while(IF dead THEN Scan_emit_lexer_rs(s1)
                  ELSE IF accepts THEN [s1 EXCEPT !.accepted = Some(s1.cursor)]
                  ELSE s1)

\* put has appended its character and calls lex: the cursor is on that
\* character, and an earlier acceptance may be recorded
ScanInit ==
    /\ \E d \in ScanDrafts, n \in 1..MaxQueue, a \in 0..(MaxQueue - 1) :
          /\ a < n
          /\ scan = Some([draft |-> d, len |-> n, cursor |-> n - 1,
                          accepted |-> IF a = 0 THEN None ELSE Some(a),
                          local |-> None, all_dead |-> TRUE, emits |-> 0,
                          error |-> FALSE, panicked |-> FALSE, running |-> TRUE])
    /\ LexerIdle /\ MatcherIdle /\ SexprIdle /\ UniqueIdle /\ DfaIdle
    /\ BuilderIdle /\ GraphIdle /\ StepIdle

\* what the matchers can answer: an accepting matcher is not dead
ScanAnswers == {a \in BOOLEAN \X BOOLEAN : ~(a[1] /\ a[2])}

ScanLexer ==
    /\ Unwrap(scan).draft = "lexer/lexer.rs"
    /\ Unwrap(scan).running
    /\ \E a \in ScanAnswers : scan' = Some(Scan_lex_lexer(Unwrap(scan), a[1], a[2]))
    /\ UNCHANGED <<idleVars, sexprVars, uniqueVars, dfaVars, builderVars, graphVars,
                   stepVars>>

ScanLex ==
    /\ Unwrap(scan).draft = "lex/lexer.rs"
    /\ Unwrap(scan).running
    /\ \E a \in ScanAnswers : scan' = Some(Scan_lex_lex(Unwrap(scan), a[1], a[2]))
    /\ UNCHANGED <<idleVars, sexprVars, uniqueVars, dfaVars, builderVars, graphVars,
                   stepVars>>

ScanLexerRs ==
    /\ Unwrap(scan).draft = "lexer.rs"
    /\ Unwrap(scan).running
    /\ \E a \in ScanAnswers : scan' = Some(Scan_lex_lexer_rs(Unwrap(scan), a[1], a[2]))
    /\ UNCHANGED <<idleVars, sexprVars, uniqueVars, dfaVars, builderVars, graphVars,
                   stepVars>>

ScanNext == ScanLexer \/ ScanLex \/ ScanLexerRs

ScanSpec == ScanInit /\ [][ScanNext]_vars

\* lex is sequential code: while its loop is running, the next turn is taken
ScanFairSpec == ScanSpec /\ WF_vars(ScanNext)

(***************************************************************************)
(* The Graph of src/utils/graph.rs under add_vertex, add_edge and          *)
(* remove_vertex, for at most MaxVertices vertices added.  `gref` records  *)
(* what the calls were: the vertices added and not removed, by id, with    *)
(* their data and edges, and the ids removed.  The other components stay   *)
(* idle.                                                                   *)
(***************************************************************************)
\* the number of add_vertex calls
MaxVertices == 3

\* the number of add_edge calls per vertex
MaxOutEdges == 1

GraphData == {"x", "y"}

GraphInit ==
    /\ graph = Some(Graph_new)
    /\ gref = Some([live |-> <<>>, removed |-> {}])
    /\ LexerIdle /\ MatcherIdle /\ SexprIdle /\ UniqueIdle /\ DfaIdle
    /\ BuilderIdle /\ StepIdle /\ ScanIdle

GraphAddVertex ==
    /\ ~Unwrap(graph).panicked
    /\ Unwrap(graph).next_id <= MaxVertices
    /\ \E data \in GraphData :
          LET r == Graph_add_vertex(Unwrap(graph), data)
          IN /\ graph' = Some(r[1])
             /\ gref' = Some([Unwrap(gref) EXCEPT
                                !.live = [k \in (DOMAIN @) \cup {r[2]} |->
                                            IF k = r[2] THEN [data |-> data, edges |-> <<>>]
                                            ELSE @[k]]])
    /\ UNCHANGED <<idleVars, sexprVars, uniqueVars, dfaVars, builderVars, stepVars,
                   scanVars>>

\* an edge between two vertices that were added and not removed
GraphAddEdge ==
    /\ ~Unwrap(graph).panicked
    /\ \E src \in DOMAIN Unwrap(gref).live, dst \in DOMAIN Unwrap(gref).live :
          /\ Len(Unwrap(gref).live[src].edges) < MaxOutEdges
          /\ graph' = Some(Graph_add_edge(Unwrap(graph), src, dst, "e"))
          /\ gref' = Some([Unwrap(gref) EXCEPT
                             !.live[src].edges = Append(@, [data |-> "e", target |-> dst])])
    /\ UNCHANGED <<idleVars, sexprVars, uniqueVars, dfaVars, builderVars, stepVars,
                   scanVars>>

\* remove_vertex of a vertex that was added and not removed
GraphRemoveVertex ==
    /\ ~Unwrap(graph).panicked
    /\ \E deleted \in DOMAIN Unwrap(gref).live :
          /\ \E g \in Graph_remove_vertex(Unwrap(graph), deleted) : graph' = Some(g)
          /\ gref' = Some([live |-> [k \in (DOMAIN Unwrap(gref).live) \ {deleted} |->
                                       Unwrap(gref).live[k]],
                           removed |-> Unwrap(gref).removed \cup {deleted}])
    /\ UNCHANGED <<idleVars, sexprVars, uniqueVars, dfaVars, builderVars, stepVars,
                   scanVars>>

GraphNext == GraphAddVertex \/ GraphAddEdge \/ GraphRemoveVertex

GraphSpec == GraphInit /\ [][GraphNext]_vars

(***************************************************************************)
(* Reference semantics, independent of both matchers: the language of a    *)
(* regex tree, the rules of a mode in declaration order, and the single-   *)
(* shot tokenizer (longest accepting prefix, then earliest rule).          *)
(***************************************************************************)
RECURSIVE InLang(_, _)
InLang(e, w) ==
    CASE e[1] = "empty" -> FALSE
      [] e[1] = "epsilon" -> w = <<>>
      [] e[1] = "any" -> Len(w) = 1
      [] e[1] = "char" -> w = <<e[2]>>
      [] e[1] = "range" -> Len(w) = 1 /\ e[2] <= w[1] /\ w[1] <= e[3]
      [] e[1] = "one_of" -> Len(w) = 1 /\ \E i \in 1..Len(e[2]) : e[2][i] = w[1]
      [] e[1] = "none_of" -> Len(w) = 1 /\ \A i \in 1..Len(e[2]) : e[2][i] # w[1]
      [] e[1] = "concat" ->
            \E k \in 0..Len(w) : /\ InLang(e[2], SubSeq(w, 1, k))
                                 /\ InLang(e[3], SubSeq(w, k + 1, Len(w)))
      [] e[1] = "union" -> InLang(e[2], w) \/ InLang(e[3], w)
      [] e[1] = "star" ->
            \/ w = <<>>
            \/ \E k \in 1..Len(w) : /\ InLang(e[2], SubSeq(w, 1, k))
                                    /\ InLang(e, SubSeq(w, k + 1, Len(w)))
      [] e[1] = "plus" ->
            \E k \in 0..Len(w) : /\ InLang(e[2], SubSeq(w, 1, k))
                                 /\ InLang(<<"star", e[2]>>, SubSeq(w, k + 1, Len(w)))
      [] e[1] = "opt" -> w = <<>> \/ InLang(e[2], w)

\* the rules table t registers with from_mode = mode, in the order they were added
RulesOf(t, mode) ==
    SelectSeq(Tables[t], LAMBDA k : k.call = "add_rule" /\ k.from_mode = mode)

\* the rule of table t that carries `token` (tokens are unique within a table)
RuleOfToken(t, token) ==
    CHOOSE k \in {Tables[t][i] : i \in 1..Len(Tables[t])} :
        k.call = "add_rule" /\ k.token = token

\* the name the lexer's mode table gives to a mode index
ModeName(i) == CHOOSE m \in DOMAIN map : map[m] = i

\* indices of the rules of `mode` that accept u
Accepting(t, mode, u) ==
    {i \in 1..Len(RulesOf(t, mode)) : InLang(RulesOf(t, mode)[i].regex, u)}

\* the largest l >= 1 such that some rule of `mode` accepts w[0..l], 0 when none does
LongestAccept(t, mode, w) ==
    LET ls == {l \in 1..Len(w) : Accepting(t, mode, SubSeq(w, 1, l)) # {}}
    IN IF ls = {} THEN 0 ELSE SetMax(ls)

\* the earliest rule of `mode` that accepts u
EarliestRule(t, mode, u) == RulesOf(t, mode)[SetMin(Accepting(t, mode, u))]

\* the single-shot tokenizer: [lexemes, ok], ok iff all of w was tokenized
RECURSIVE RefTok(_, _, _, _)
RefTok(t, mode, w, pos) ==
    IF w = <<>> THEN [lexemes |-> <<>>, ok |-> TRUE]
    ELSE LET l == LongestAccept(t, mode, w)
             r == EarliestRule(t, mode, SubSeq(w, 1, l))
             rest == RefTok(t, r.to_mode, SubSeq(w, l + 1, Len(w)), pos + l)
         IN IF l = 0 THEN [lexemes |-> <<>>, ok |-> FALSE]
            ELSE [lexemes |-> <<[token |-> r.token, position |-> pos, length |-> l]>>
                              \o rest.lexemes,
                  ok |-> rest.ok]

\* (kind, position, length) of a lexeme sequence
Kinds(ls) ==
    [i \in 1..Len(ls) |->
        [token |-> ls[i].token, position |-> ls[i].position, length |-> ls[i].length]]

\* the characters of the fed input a lexeme covers
Covered(x) == SubSeq(fed, x.position + 1, x.position + x.length)

\* the mode lexeme i of `emitted` was scanned under
ScanMode(i) ==
    IF i = 1 THEN ModeName(mode0) ELSE RuleOfToken(tbl, emitted[i - 1].token).to_mode

\* put per character, then one finish
FedAndFinished == finished /\ ~overrun

\* the lexer is as constructed: reset has not run
Fresh == resets = 0

NoError == ~IsSome(error) /\ ~panicked

IsPrefix(p, q) == Len(p) <= Len(q) /\ SubSeq(q, 1, Len(p)) = p

RECURSIVE SumLengths(_, _)
SumLengths(ls, n) == IF n = 0 THEN 0 ELSE SumLengths(ls, n - 1) + ls[n].length

RECURSIVE ConcatSpans(_)
ConcatSpans(ls) ==
    IF ls = <<>> THEN <<>>
    ELSE (IF IsSome(Head(ls).span) THEN Unwrap(Head(ls).span) ELSE <<>>)
         \o ConcatSpans(Tail(ls))

AllKeepSpan(t) ==
    \A i \in 1..Len(Tables[t]) : Tables[t][i].call = "add_rule" => Tables[t][i].keep_span

EndOfInputError(e) ==
    /\ IsSome(e)
    /\ IF draft = "lexer" THEN Unwrap(e) = "unexpected end of input"
       ELSE Unwrap(e).message = "unexpected end of input"

UnexpectedInputError(e) ==
    /\ IsSome(e)
    /\ IF draft = "lexer" THEN Unwrap(e) = "unexpected character"
       ELSE Unwrap(e).message = "unexpected input" /\ Unwrap(e).position = position

\* (kind, length) of the lexeme last_accepted records
Recorded ==
    IF draft = "lexer"
    THEN [token |-> Unwrap(last_accepted)[1].token,
          length |-> Unwrap(last_accepted)[1].length]
    ELSE [token |-> modes[current_mode + 1][Unwrap(last_accepted)[1] + 1].token,
          length |-> Unwrap(last_accepted)[2]]

(***************************************************************************)
(* The claims.                                                             *)
(***************************************************************************)

C2_Tiebreak ==
    Fresh =>
        \A i \in 1..Len(emitted) :
            Accepting(tbl, ScanMode(i), Covered(emitted[i])) # {} =>
                LET r == EarliestRule(tbl, ScanMode(i), Covered(emitted[i]))
                IN /\ emitted[i].token = r.token
                   /\ IsSome(emitted[i].span) = r.keep_span

\* a lexeme was emitted whose characters two rules of its mode accept
C2_Witness ==
    /\ Fresh
    /\ \E i \in 1..Len(emitted) :
          Cardinality(Accepting(tbl, ScanMode(i), Covered(emitted[i]))) > 1

\* C3 (streaming equivalence): after put per character and then finish, the
\* emitted (kind, position, length) sequence is that of the single-shot reference
\* tokenizer, and when the reference tokenizes the whole input the lexer ends
\* without error (stated for non-empty inputs).
C3_StreamingEquivalence ==
    (Fresh /\ FedAndFinished /\ fed # <<>>) =>
        LET ref == RefTok(tbl, ModeName(mode0), fed, 0)
        IN /\ Kinds(emitted) = ref.lexemes
           /\ ref.ok => NoError

\* C4 (totality): when every rule keeps its span and put per character followed
\* by finish ends without error, the spans of the emitted lexemes, concatenated
\* in emission order, are the input.
C4_Totality ==
    (AllKeepSpan(tbl) /\ FedAndFinished /\ NoError) => ConcatSpans(emitted) = fed

\* an error-free run of a keep_span table that emitted more than one lexeme
C4_Witness ==
    /\ AllKeepSpan(tbl) /\ FedAndFinished /\ NoError
    /\ Len(emitted) >= 2

\* C5 (position monotonicity): the lexemes get has returned since the last reset
\* are a prefix of the emitted ones (FIFO); the first position is 0, each position
\* is the sum of the lengths of the lexemes emitted before it, and positions
\* strictly increase.
C5_PositionMonotonicity ==
    /\ IsPrefix(got, emitted)
    /\ \A i \in 1..Len(emitted) :
          /\ emitted[i].position = SumLengths(emitted, i - 1)
          /\ i = 1 => emitted[i].position = 0
          /\ i > 1 => emitted[i].position > emitted[i - 1].position

\* get has returned two lexemes
C5_Witness == Len(got) >= 2 /\ got[2].position > 0

\* C6 (mode fidelity): the lexeme emitted after a lexeme of a rule with to_mode M
\* starts at the first character after it, and its kind is that of a rule
\* registered with from_mode M that accepts the characters it covers.
C6_ModeFidelity ==
    \A i \in 2..Len(emitted) :
        /\ emitted[i].position = emitted[i - 1].position + emitted[i - 1].length
        /\ \E j \in Accepting(tbl, ScanMode(i), Covered(emitted[i])) :
              RulesOf(tbl, ScanMode(i))[j].token = emitted[i].token

\* a lexeme was emitted under a mode other than the one the scan started in
C6_Witness ==
    /\ Len(emitted) >= 2
    /\ \E i \in 2..Len(emitted) : ScanMode(i) # ScanMode(i - 1)

\* C7 (sticky error is terminal): a put or a finish that begins with the sticky
\* error set leaves every field of the lexer unchanged.
C7_StickyErrorTerminal ==
    [][(IsSome(error) /\ lastOp' \in {"put", "finish"}) => lexerVars' = lexerVars]_vars

\* a put or finish has run on a lexer whose sticky error was set, with lexemes queued
C7_Witness ==
    /\ onError /\ lastOp \in {"put", "finish"}
    /\ emitted # <<>>

\* C8 (get after the error): with the sticky error set, get returns none only
\* when no committed lexeme is left in the output queue.
C8_GetAfterError ==
    (IsSome(error) /\ lastOp = "get" /\ lastRet = None) => output = <<>>

\* C9 (unexpected input): a put that sets the sticky error returns normally,
\* reports unexpected input at the position accumulator and leaves the failing
\* characters in the input queue.
C9_UnexpectedInput ==
    (lastOp = "put" /\ ~onError /\ IsSome(error)) =>
        /\ ~panicked
        /\ UnexpectedInputError(error)
        /\ input # <<>>

\* C10 (unexpected end of input): a finish that begins with no last_accepted and a
\* non-empty input queue returns with the unexpected-end-of-input error and emits
\* nothing; a finish that begins with last_accepted recorded emits exactly that
\* lexeme.
C10_UnexpectedEndOfInput ==
    [][(lastOp' = "finish" /\ ~IsSome(error) /\ ~panicked) =>
          /\ (~IsSome(last_accepted) /\ input # <<>>) =>
                /\ ~panicked'
                /\ EndOfInputError(error')
                /\ emitted' = emitted
          /\ IsSome(last_accepted) =>
                /\ Len(emitted') = Len(emitted) + 1
                /\ SubSeq(emitted', 1, Len(emitted)) = emitted
                /\ emitted'[Len(emitted')].token = Recorded.token
                /\ emitted'[Len(emitted')].length = Recorded.length]_vars

\* C11 (finish on an empty queue): a finish that begins with an empty input
\* queue, no last_accepted and no error sets no error, emits no lexeme and
\* returns normally.
C11_FinishOnEmptyQueue ==
    [][(/\ lastOp' = "finish"
        /\ ~IsSome(error) /\ ~panicked
        /\ input = <<>> /\ ~IsSome(last_accepted)) =>
          /\ ~IsSome(error')
          /\ ~panicked'
          /\ emitted' = emitted]_vars

\* the lexer as built from the table of this run
AsBuilt == Configured(draft, tbl)

\* C12 (reset): right after reset, from whatever state it was called in, the
\* input and output queues are empty, the sticky error and last_accepted are
\* cleared, the position accumulator is 0, every matcher is in the state it was
\* built in, and the current mode is the recorded start mode.
C12_ResetRestores ==
    lastOp = "reset" =>
        /\ input = <<>>
        /\ output = <<>>
        /\ error = None
        /\ last_accepted = None
        /\ position = 0
        /\ modes = AsBuilt.modes
        /\ current_mode = start_mode

\* the mode of the table's last set_start_mode call, None when it makes none
StartModeOf(t) ==
    LET calls == SelectSeq(Tables[t], LAMBDA k : k.call = "set_start_mode")
    IN IF calls = <<>> THEN None ELSE Some(calls[Len(calls)].mode)

\* C13 (set_start_mode): when the table calls set_start_mode(M), the current
\* mode is M right after configuration and right after every reset.
C13_StartMode ==
    (IsSome(StartModeOf(tbl)) /\ lastOp \in {"new", "reset"}) =>
        ModeName(current_mode) = Unwrap(StartModeOf(tbl))

\* the NFA was built and driven without unwinding
NfaOk == ~nfa.panicked

\* C14 (automaton acceptance): after the characters of `word` were fed to a
\* matcher as built or as reset, is_accept is true exactly when `word` is in the
\* language of the regex; for the derivative Matcher and for the NFA.
C14_Acceptance ==
    /\ is_accepted(matcher) <=> InLang(Regex, word)
    /\ NfaOk
    /\ Nfa_is_accept(nfa) <=> InLang(Regex, word)

\* some string (possibly empty) appended to w gives a string of the language of e
RECURSIVE CanExtend(_, _)
CanExtend(e, w) ==
    CASE e[1] = "empty" -> FALSE
      [] e[1] = "epsilon" -> w = <<>>
      [] e[1] \in {"any", "char", "none_of"} -> w = <<>> \/ InLang(e, w)
      [] e[1] = "range" -> (w = <<>> /\ e[2] <= e[3]) \/ InLang(e, w)
      [] e[1] = "one_of" -> (w = <<>> /\ e[2] # <<>>) \/ InLang(e, w)
      [] e[1] = "concat" ->
            \/ CanExtend(e[2], w) /\ CanExtend(e[3], <<>>)
            \/ \E k \in 0..Len(w) : /\ InLang(e[2], SubSeq(w, 1, k))
                                    /\ CanExtend(e[3], SubSeq(w, k + 1, Len(w)))
      [] e[1] = "union" -> CanExtend(e[2], w) \/ CanExtend(e[3], w)
      [] e[1] = "star" ->
            \E k \in 0..Len(w) : /\ InLang(e, SubSeq(w, 1, k))
                                 /\ \/ k = Len(w)
                                    \/ CanExtend(e[2], SubSeq(w, k + 1, Len(w)))
      [] e[1] = "plus" -> CanExtend(<<"concat", e[2], <<"star", e[2]>>>>, w)
      [] e[1] = "opt" -> w = <<>> \/ CanExtend(e[2], w)

\* C15 (automaton deadness): when no extension of the fed word is in the
\* language of the regex, is_dead is true; and a feed on a dead matcher leaves it
\* dead; for the derivative Matcher and for the NFA.
C15_Deadness ==
    [][/\ ~CanExtend(Regex', word') => (Matcher_is_dead(matcher') /\ NfaOk' /\ Nfa_is_dead(nfa'))
       /\ ~CanExtend(Regex, word) => (Matcher_is_dead(matcher) /\ NfaOk /\ Nfa_is_dead(nfa))
       /\ (mOp' = "put" /\ Matcher_is_dead(matcher)) => Matcher_is_dead(matcher')
       /\ (mOp' = "put" /\ Nfa_is_dead(nfa)) => Nfa_is_dead(nfa')]_vars

\* C16 (accepting is not dead): in every matcher state, is_accept implies that
\* is_dead is false; for the derivative Matcher, for the NFA of src/lex and
\* for the NfaRunner of src/lexer.
C16_AcceptNotDead ==
    /\ is_accepted(matcher) => ~Matcher_is_dead(matcher)
    /\ (NfaOk /\ Nfa_is_accept(nfa)) => ~Nfa_is_dead(nfa)
    /\ NfaRunner_is_accept(runner) => ~NfaRunner_is_dead(runner)

\* an Nfa without its scratch buffer `next`, which put clears before use
NfaState(n) == [n EXCEPT !.next = <<>>]

\* C17 (matcher reset): after reset, once or twice in a row and after any feeds,
\* the derivative Matcher is the Matcher as built for the regex and the NFA is
\* the NFA as built (up to the scratch buffer), so both behave as freshly built.
C17_MatcherReset ==
    mOp \in {"reset", "reset again"} =>
        /\ matcher = Matcher_new(Build(Regex))
        /\ NfaState(nfa) = NfaState(nfa0)

\* a second reset in a row, after feeds that had moved both matchers
C17_Witness ==
    /\ mOp = "reset again"
    /\ nfa.next # <<>>
    /\ matcher.regex.node[1] \in {"Concat", "Star", "Union"}

\* the recursive definition of nullability on the IR
RECURSIVE NullableRec(_)
NullableRec(r) ==
    CASE r.node[1] = "Empty" -> FALSE
      [] r.node[1] = "Epsilon" -> TRUE
      [] r.node[1] = "Range" -> FALSE
      [] r.node[1] = "Concat" -> NullableRec(r.node[2]) /\ NullableRec(r.node[3])
      [] r.node[1] = "Union" -> NullableRec(r.node[2]) \/ NullableRec(r.node[3])
      [] r.node[1] = "Star" -> TRUE

\* the cached flag of r and of every sub-term of r equals the recursive definition
RECURSIVE FlagsRight(_)
FlagsRight(r) ==
    /\ r.nullable = NullableRec(r)
    /\ CASE r.node[1] \in {"Concat", "Union"} ->
                FlagsRight(r.node[2]) /\ FlagsRight(r.node[3])
         [] r.node[1] = "Star" -> FlagsRight(r.node[2])
         [] OTHER -> TRUE

\* C18 (nullability): for the term the constructors return for the regex and
\* for every derivative of it, the cached nullable flag (of the term and of its
\* sub-terms) equals the recursive definition, and the term built by the
\* constructors is nullable exactly when the empty string is in its language.
C18_Nullability ==
    /\ FlagsRight(matcher.regex)
    /\ FlagsRight(matcher.state)
    /\ is_nullable(matcher.regex) <=> InLang(Regex, <<>>)

\* a derivative that is a nullable Union, Concat or Star with a non-nullable part
C18_Witness ==
    /\ word # <<>>
    /\ matcher.state.node[1] \in {"Union", "Concat"}
    /\ matcher.state.nullable
    /\ ~matcher.state.node[2].nullable \/ ~matcher.state.node[3].nullable

\* structural equality of two IR terms
RECURSIVE SameTerm(_, _)
SameTerm(a, b) ==
    /\ a.node[1] = b.node[1]
    /\ a.nullable = b.nullable
    /\ CASE a.node[1] = "Range" -> a.node[2] = b.node[2] /\ a.node[3] = b.node[3]
         [] a.node[1] \in {"Concat", "Union"} ->
                SameTerm(a.node[2], b.node[2]) /\ SameTerm(a.node[3], b.node[3])
         [] a.node[1] = "Star" -> SameTerm(a.node[2], b.node[2])
         [] OTHER -> TRUE

\* the smart-constructor laws for the term x
Normalises(x) ==
    /\ SameTerm(concat(epsilon, x), x)
    /\ SameTerm(concat(x, epsilon), x)
    /\ SameTerm(concat(empty, x), empty)
    /\ SameTerm(concat(x, empty), empty)
    /\ SameTerm(union(empty, x), x)
    /\ SameTerm(union(x, empty), x)
    /\ SameTerm(star(empty), epsilon)
    /\ SameTerm(star(epsilon), epsilon)
    /\ SameTerm(star(star(x)), star(x))

\* C19 (smart constructors): for the term built for the regex and for every
\* derivative x of it, concat(epsilon, x), concat(x, epsilon), union(empty, x)
\* and union(x, empty) are x, concat(empty, x) and concat(x, empty) are Empty,
\* star(empty) and star(epsilon) are Epsilon, and star(star(x)) is star(x).
C19_SmartConstructors ==
    Normalises(matcher.regex) /\ Normalises(matcher.state)

\* C20 (none_of): for a regex none_of(s), with s in any order and with repeats,
\* both matchers accept the fed word exactly when it is one character that is
\* not in s (for empty s: any one character), and the NFA is built without
\* failing.
C20_NoneOf ==
    Regex[1] = "none_of" =>
        LET matches == Len(word) = 1 /\ word[1] \notin SeqRange(Regex[2])
        IN /\ is_accepted(matcher) <=> matches
           /\ NfaOk
           /\ Nfa_is_accept(nfa) <=> matches

\* C21 (interchangeable realisations): for every regex term and every fed
\* word, after construction, after reset and after each fed character, the
\* Thompson NFA is built without failing and reports the same is_accept and
\* the same is_dead as the derivative matcher.
C21_Interchangeable ==
    /\ NfaOk
    /\ Nfa_is_accept(nfa) <=> is_accepted(matcher)
    /\ Nfa_is_dead(nfa) <=> Matcher_is_dead(matcher)

\* the lexemes of kind `token` among the emitted ones, as <<position, length>>
EmittedAs(token) ==
    {<<emitted[i].position, emitted[i].length>> :
        i \in {j \in 1..Len(emitted) : emitted[j].token = token}}

\* the maximal runs of space (32) and tab (9) in w, as <<position, length>>
BlankRuns(w) ==
    {<<p, k>> \in (0..Len(w)) \X (1..Len(w)) :
        /\ p + k <= Len(w)
        /\ \A i \in (p + 1)..(p + k) : w[i] \in {32, 9}
        /\ p = 0 \/ w[p] \notin {32, 9}
        /\ p + k = Len(w) \/ w[p + k + 1] \notin {32, 9}}

\* C22 (whitespace runs): with a surface rule set, once a non-empty input of
\* spaces, tabs and parentheses has been fed and finished once, there is no error
\* and the Whitespace lexemes are exactly the maximal runs of spaces and
\* tabs, one lexeme of length k per run of k characters.
C22_WhitespaceRuns ==
    (finished /\ ~overrun /\ fed # <<>>
     /\ \A i \in 1..Len(fed) : fed[i] \in {32, 9, 40, 41}) =>
        /\ ~IsSome(error)
        /\ EmittedAs("Whitespace") = BlankRuns(fed)

\* w is a semicolon (59), a comment text without newline, and a newline (10)
CommentLine(w) ==
    /\ Len(w) >= 2
    /\ w[1] = 59
    /\ w[Len(w)] = 10
    /\ \A i \in 2..(Len(w) - 1) : w[i] # 10

\* C23 (comments): with a surface rule set, feeding ";", a comment text and a
\* newline raises no error and no panic and leaves the lexer in the mode it
\* started in; after finish the lexemes are Semicolon@0, then (unless the
\* text is empty) one Comment@1 whose length is that of the text and whose
\* span is the text, then Newline at the position of the newline.
C23_Comment ==
    (CommentLine(fed) /\ ~overrun) =>
        /\ ~panicked
        /\ ~IsSome(error)
        /\ finished =>
              /\ current_mode = mode0
              /\ EmittedAs("Semicolon") = {<<0, 1>>}
              /\ EmittedAs("Newline") = {<<Len(fed) - 1, 1>>}
              /\ Len(fed) > 2 =>
                    /\ Len(emitted) = 3
                    /\ emitted[2] = Lexeme("Comment", 1, Len(fed) - 2,
                                           Some(SubSeq(fed, 2, Len(fed) - 1)))
              /\ Len(fed) = 2 => EmittedAs("Comment") \subseteq {<<1, 0>>}

\* the rule set in use has a rule for `token`
HasRule(token) ==
    \E i \in 1..Len(Surfaces[tbl - Len(Tables)].calls) :
        LET k == Surfaces[tbl - Len(Tables)].calls[i]
        IN k.call = "add_rule" /\ k.token = token

\* the maximal runs of characters other than space, tab, newline and
\* parentheses in w, as <<position, length>>
Words(w) ==
    {<<p, k>> \in (0..Len(w)) \X (1..Len(w)) :
        /\ p + k <= Len(w)
        /\ \A i \in (p + 1)..(p + k) : w[i] \notin {32, 9, 10, 40, 41}
        /\ p = 0 \/ w[p] \in {32, 9, 10, 40, 41}
        /\ p + k = Len(w) \/ w[p + k + 1] \in {32, 9, 10, 40, 41}}

Digits(w) == w # <<>> /\ \A i \in 1..Len(w) : w[i] \in 48..57

\* an optional sign (+ 43, - 45) and digits
IsInteger(w) == Digits(w) \/ (w # <<>> /\ w[1] \in {43, 45} /\ Digits(Tail(w)))

\* e (101) or E (69) and an integer
IsExponent(w) == w # <<>> /\ w[1] \in {101, 69} /\ IsInteger(Tail(w))

\* integer exponent, or integer . digits with an optional exponent
IsFloat(w) ==
    \E i \in 1..Len(w) :
        /\ IsInteger(SubSeq(w, 1, i))
        /\ \/ IsExponent(SubSeq(w, i + 1, Len(w)))
           \/ /\ i < Len(w)
              /\ w[i + 1] = 46
              /\ \E j \in (i + 2)..Len(w) :
                    /\ Digits(SubSeq(w, i + 2, j))
                    /\ j = Len(w) \/ IsExponent(SubSeq(w, j + 1, Len(w)))

\* C24 (numbers): with a surface rule set that has Integer and Float rules,
\* once a whole text without comments has been fed and finished there is no
\* error, every word that is a float (1.1, +11.0, -11.0, 11e10) is one Float
\* lexeme and every word that is an integer (1, 11, +11, -11) is one Integer
\* lexeme.
C24_Numbers ==
    (HasRule("Integer") /\ HasRule("Float") /\ fed = Text /\ 59 \notin SeqRange(fed)
     /\ finished /\ ~overrun) =>
        /\ ~IsSome(error)
        /\ \A pk \in Words(fed) :
              LET w == SubSeq(fed, pk[1] + 1, pk[1] + pk[2])
              IN /\ IsFloat(w) => pk \in EmittedAs("Float")
                 /\ IsInteger(w) => pk \in EmittedAs("Integer")

\* the tokens the randomizer expects for the pieces chosen: the kind of
\* each token of `space` followed by LParen, the kind of a string filler,
\* nothing for blanks and comments
RECURSIVE ExpectedKinds(_)
ExpectedKinds(ps) ==
    IF ps = <<>> THEN <<>>
    ELSE (IF Head(ps) <= Len(space) THEN <<Pieces[Head(ps)].kind, "LParen">>
          ELSE IF Pieces[Head(ps)].kind = "none" THEN <<>>
          ELSE <<Pieces[Head(ps)].kind>>) \o ExpectedKinds(Tail(ps))

\* the source is fed completely, finish was called and take has drained
\* the output
SexprDone == sexprOp = "finish" /\ sexpr.output = <<>>

\* C25: when tokens drawn from `space`, each followed by '(', were fed
\* through update and finish was called, the lexemes taken are exactly the
\* kinds drawn, each followed by LParen, and the lexer is in no error state
C25_RoundTrip ==
    (SexprDone /\ chosen # <<>> /\ \A i \in 1..Len(chosen) : chosen[i] <= Len(space)) =>
        /\ ~sexpr.panicked
        /\ sexpr.error = None
        /\ [i \in 1..Len(actual) |-> actual[i].token.kind] = ExpectedKinds(chosen)

\* the offsets in the source (0-based) of the first characters of the
\* tokens of the pieces `ps`, the first piece starting at offset `off`
RECURSIVE TokenStarts(_, _)
TokenStarts(ps, off) ==
    IF ps = <<>> THEN <<>>
    ELSE (IF Head(ps) <= Len(space) THEN <<off, off + Len(Pieces[Head(ps)].text)>>
          ELSE IF Pieces[Head(ps)].kind = "none" THEN <<>>
          ELSE <<off>>) \o TokenStarts(Tail(ps), off + Len(PieceText(Head(ps))))

\* the 1-based line and column of the character at offset `off` of `w`
LineAt(w, off) == 1 + Cardinality({i \in 1..off : w[i] = 10})

ColumnAt(w, off) == off + 1 - SetMax({0} \cup {i \in 1..off : w[i] = 10})

\* C28: for any mix of tokens, blanks, newlines, comments and strings,
\* every lexeme carries the 1-based line and column of the first
\* character of its token, also the first token after a comment line
C28_LineColumn ==
    (SexprDone /\ sexpr.error = None /\ ~sexpr.panicked
     /\ Len(actual) = Len(TokenStarts(chosen, 0))) =>
        \A i \in 1..Len(actual) :
            /\ actual[i].line = LineAt(source, TokenStarts(chosen, 0)[i])
            /\ actual[i].column = ColumnAt(source, TokenStarts(chosen, 0)[i])

\* the ids the calls of Unique::new have returned, as <<thread, index, id>>
Returned == UNION {{<<t, i, ids[t][i]>> : i \in 1..Len(ids[t])} : t \in DOMAIN ids}

\* C26: whatever the interleaving of the threads, the ids returned by
\* Unique::new are pairwise distinct and never zero, and the values
\* fetched are strictly increasing in the order in which the atomic
\* increments took effect
C26_UniqueIds ==
    /\ \A x, y \in Returned : x[3] = y[3] => x = y
    /\ \A x \in Returned : x[3] # 0 /\ \E k \in 1..Len(order) : order[k] = x[3]
    /\ \A j, k \in 1..Len(order) : j < k => order[j] < order[k]

\* all calls are made and have returned, every thread has an id, and a
\* thread has got a smaller first id than a thread before it
C26_Witness ==
    /\ Len(order) = MaxCalls
    /\ \A t \in DOMAIN ids : ids[t] # <<>>
    /\ \E t, u \in DOMAIN ids : t < u /\ ids[u][1] < ids[t][1]
    /\ \A t \in DOMAIN new_ids : new_ids[t] = None

\* the edges leaving state `i` of Dfa `d` that apply to character `c`
Applicable(d, i, c) ==
    {j \in 1..Len(d.states[i].edges) :
        d.states[i].edges[j][1] <= c /\ c <= d.states[i].edges[j][2]}

\* C27: add_edge panics whenever the new guard shares a character with
\* the guard of an edge already leaving the same state, so that in every
\* Dfa built the guards of the edges leaving one state are pairwise
\* disjoint and at most one edge applies to any character
C27_DisjointGuards ==
    (dfa # None /\ ~Unwrap(dfa).panicked) =>
        \A i \in 1..Len(Unwrap(dfa).states) : \A c \in Alphabet :
            Cardinality(Applicable(Unwrap(dfa), i, c)) <= 1

\* every matcher of the rules is dead
AllDead(rules) == \A i \in 1..Len(rules) : Matcher_is_dead(rules[i].matcher)

AllNfaDead(rules) == \A i \in 1..Len(rules) : Nfa_is_dead(rules[i].nfa)

\* the scan loop of src/lexer/lexer.rs followed from cursor `at` on: one
\* record per step, with the lexer as it is when the step decides (`self`),
\* the index of the step, the flag all_dead the loop decides on, and
\* whether every matcher is dead after the character of the step was fed
RECURSIVE Lexer_scan_steps(_, _, _)
Lexer_scan_steps(self, at, all_dead) ==
    IF ~(at < Len(self.input)) \/ ~(self.current_mode < Len(self.modes)) THEN <<>>
    ELSE LET Step(st) ==
                 LET s1 == [self EXCEPT !.modes[self.current_mode + 1] = st.rules]
                     s2 == IF IsSome(st.accepted)
                           THEN [s1 EXCEPT !.last_accepted = st.accepted]
                           ELSE s1
                 IN <<[self |-> s2, at |-> at, all_dead |-> st.all_dead,
                       dead |-> AllDead(st.rules)]>>
                    \o (IF st.all_dead
                        THEN IF IsSome(Lexer_emit(s2).error) THEN <<>>
                             ELSE Lexer_scan_steps(Lexer_emit(s2), 0, st.all_dead)
                        ELSE Lexer_scan_steps(s2, at + 1, st.all_dead))
         IN Step(Lexer_lex_rules(self, self.input[at + 1], at, 1,
                    [rules |-> self.modes[self.current_mode + 1],
                     accepted |-> None, all_dead |-> all_dead]))

\* the same for the scan loop of src/lex/lexer.rs, whose index is self.cursor
RECURSIVE Lex_scan_steps(_, _, _)
Lex_scan_steps(self, all_dead, local_accepted) ==
    IF ~(self.cursor < Len(self.input)) \/ ~(self.current_mode < Len(self.modes)) THEN <<>>
    ELSE LET Step(st) ==
                 IF st.panicked THEN <<>>
                 ELSE LET s1 == [self EXCEPT !.modes[self.current_mode + 1] = st.rules]
                      IN <<[self |-> s1, at |-> self.cursor, all_dead |-> st.all_dead,
                            dead |-> AllNfaDead(st.rules)]>>
                         \o (IF st.all_dead
                             THEN IF Lex_emit(s1).panicked THEN <<>>
                                  ELSE Lex_scan_steps(Lex_emit(s1), st.all_dead,
                                                      st.last_accepted)
                             ELSE Lex_scan_steps(
                                     [s1 EXCEPT !.last_accepted =
                                                    IF IsSome(st.last_accepted)
                                                    THEN st.last_accepted ELSE @,
                                                !.cursor = self.cursor + 1],
                                     st.all_dead, st.last_accepted))
         IN Step(Lex_lex_rules(self, self.input[self.cursor + 1], 0,
                    [rules |-> self.modes[self.current_mode + 1],
                     all_dead |-> all_dead, last_accepted |-> local_accepted,
                     panicked |-> FALSE]))

\* the steps of the scan loop of put(ch) called now
PutSteps(ch) ==
    IF panicked \/ IsSome(error) \/ ~(Len(fed) < MaxInput) THEN <<>>
    ELSE IF draft = "lexer"
    THEN Lexer_scan_steps([Self EXCEPT !.input = Append(input, ch)], Len(input), TRUE)
    ELSE Lex_scan_steps([Self EXCEPT !.input = Append(input, ch)], TRUE, None)

\* C29: in every put call, at every step of the scan loop (the steps of a
\* rescan after an emit included): when every matcher of the current mode
\* is dead after the character of the step was fed, emit is called at that
\* step, whatever the matchers were at earlier steps
C29_DeadnessPerStep ==
    LET Decided(steps) == \A k \in 1..Len(steps) : steps[k].dead => steps[k].all_dead
    IN \A ch \in Alphabet : Decided(PutSteps(ch))

\* the lexer states on which emit is called by put(ch) or by finish called
\* now, each with the step of the scan loop that follows the emit (None
\* when the loop ends there)
EmitCalls ==
    LET Calls(steps) ==
            {<<steps[k].self, IF k < Len(steps) THEN Some(steps[k + 1]) ELSE None>> :
                k \in {j \in 1..Len(steps) : steps[j].all_dead}}
    IN UNION {Calls(PutSteps(ch)) : ch \in Alphabet}
       \cup (IF panicked \/ IsSome(error) THEN {} ELSE {<<Self, None>>})

\* emit called on `s` succeeds: it pushes a lexeme
Emits(s) ==
    IF draft = "lexer" THEN IsSome(s.last_accepted)
    ELSE IsSome(s.last_accepted) /\ ~Lex_emit(s).panicked

\* the lexer after the emit, the length of the lexeme and the to_mode of
\* the rule it is emitted for
AfterEmit(s) == IF draft = "lexer" THEN Lexer_emit(s) ELSE Lex_emit(s)

EmitLength(s) ==
    IF draft = "lexer" THEN Unwrap(s.last_accepted)[1].length
    ELSE Unwrap(s.last_accepted)[2]

EmitToMode(s) ==
    IF draft = "lexer" THEN Unwrap(s.last_accepted)[2]
    ELSE s.modes[s.current_mode + 1][Unwrap(s.last_accepted)[1] + 1].mode_to

\* every matcher of the rules is in its start state
AllAtStart(rules) ==
    \A i \in 1..Len(rules) :
        IF draft = "lexer" THEN rules[i].matcher.state = rules[i].matcher.regex
        ELSE rules[i].nfa.current = rules[i].nfa.start

\* C30: a successful emit of a lexeme of length n for rule r removes
\* exactly the first n characters of the input queue and keeps the others
\* in order, adds n to the position, clears last_accepted, makes
\* r.to_mode the current mode with every matcher of that mode in its
\* start state, restarts the scan at index 0, and leaves the lexemes
\* already in the output queue as they are
C30_EmitEffect ==
    LET Effect(s, n, to_mode, after, next) ==
            /\ n <= Len(s.input)
            /\ after.input = SubSeq(s.input, n + 1, Len(s.input))
            /\ after.position = s.position + n
            /\ after.last_accepted = None
            /\ after.current_mode = to_mode
            /\ AllAtStart(after.modes[to_mode + 1])
            /\ IsSome(next) => Unwrap(next).at = 0
            /\ Len(after.output) = Len(s.output) + 1
            /\ SubSeq(after.output, 1, Len(s.output)) = s.output
    IN \A call \in EmitCalls :
          Emits(call[1]) =>
              Effect(call[1], EmitLength(call[1]), EmitToMode(call[1]),
                     AfterEmit(call[1]), call[2])

\* a put called now emits a lexeme shorter than the input queue for a rule
\* that changes the mode, with lexemes waiting in the output queue, and
\* the scan goes on after the emit
C30_Witness ==
    \E call \in EmitCalls :
        /\ Emits(call[1])
        /\ IsSome(call[2])
        /\ EmitLength(call[1]) < Len(call[1].input)
        /\ EmitToMode(call[1]) # call[1].current_mode
        /\ call[1].output # <<>>

\* the character edges stored on node `i` have pairwise disjoint ranges
DisjointEdges(n, i) ==
    \A j, k \in 1..Len(NodeEdges(n, i)) :
        j < k => \/ NodeEdges(n, i)[j][2] < NodeEdges(n, i)[k][1]
                 \/ NodeEdges(n, i)[k][2] < NodeEdges(n, i)[j][1]

\* C31: after any sequence of edge insertions the ranges of the character
\* edges stored on one node are pairwise disjoint: a range that shares a
\* character with a range already on the source node goes to a fresh
\* intermediate node behind an epsilon edge
C31_DisjointRanges ==
    (bnfa # None /\ ~Unwrap(bnfa).panicked) =>
        \A i \in 0..(NodeCount(Unwrap(bnfa)) - 1) : DisjointEdges(Unwrap(bnfa), i)

\* An Nfa read as a graph: the targets of the epsilon edges of node `i`,
\* and of its character edges for character `c`; a node that does not
\* exist has no edges
EpsTargets(n, i) == IF i < NodeCount(n) THEN SeqRange(NodeEpsilons(n, i)) ELSE {}

CharTargets(n, i, c) ==
    IF i < NodeCount(n)
    THEN {NodeEdges(n, i)[k][3] :
            k \in {j \in 1..Len(NodeEdges(n, i)) :
                      NodeEdges(n, i)[j][1] <= c /\ c <= NodeEdges(n, i)[j][2]}}
    ELSE {}

AllTargets(n, i) ==
    IF i < NodeCount(n)
    THEN EpsTargets(n, i) \cup {NodeEdges(n, i)[k][3] : k \in 1..Len(NodeEdges(n, i))}
    ELSE {}

\* the nodes reachable from the nodes S through zero or more epsilon edges
RECURSIVE EpsReach(_, _)
EpsReach(n, S) ==
    IF UNION {EpsTargets(n, i) : i \in S} \subseteq S THEN S
    ELSE EpsReach(n, S \cup UNION {EpsTargets(n, i) : i \in S})

\* the nodes reachable from the nodes S through zero or more edges of any kind
RECURSIVE AnyReach(_, _)
AnyReach(n, S) ==
    IF UNION {AllTargets(n, i) : i \in S} \subseteq S THEN S
    ELSE AnyReach(n, S \cup UNION {AllTargets(n, i) : i \in S})

\* the Nfa accepts the word `w` read from the nodes S on
RECURSIVE AcceptsFrom(_, _, _)
AcceptsFrom(n, S, w) ==
    IF w = <<>> THEN EpsReach(n, S) \cap SeqRange(n.accept) # {}
    ELSE AcceptsFrom(n, UNION {CharTargets(n, i, Head(w)) : i \in EpsReach(n, S)}, Tail(w))

NfaAccepts(n, w) == AcceptsFrom(n, SeqRange(n.start), w)

\* the words over the alphabet of length 0, 1 and 2
ShortWords == {<<>>} \cup {<<c>> : c \in Alphabet} \cup (Alphabet \X Alphabet)

\* every node is reachable from a start node and reaches an accept node,
\* and every id stored in the Nfa is the id of a node
Pruned(n) ==
    /\ \A i \in 0..(NodeCount(n) - 1) :
          /\ i \in AnyReach(n, SeqRange(n.start))
          /\ AnyReach(n, {i}) \cap SeqRange(n.accept) # {}
          /\ AllTargets(n, i) \subseteq 0..(NodeCount(n) - 1)
    /\ SeqRange(n.start) \cup SeqRange(n.accept) \subseteq 0..(NodeCount(n) - 1)

\* C32: for every Nfa that the builder calls can make, optimize completes
\* without failing; afterwards every node is reachable from a start node
\* and reaches an accept node, every id refers to an existing node, and
\* the Nfa accepts the words it accepted before
C32_Pruning ==
    bopt # None =>
        /\ ~Unwrap(bopt).panicked
        /\ Pruned(Unwrap(bopt))
        /\ \A w \in ShortWords : NfaAccepts(Unwrap(bopt), w) <=> NfaAccepts(Unwrap(bnfa), w)

\* the epsilon list of every node holds the nodes reachable from it through
\* one or more epsilon edges, and the start nodes hold every node reachable
\* from a start node through epsilon edges
EpsilonClosed(n) ==
    /\ \A i \in 0..(NodeCount(n) - 1) : EpsTargets(n, i) = EpsReach(n, EpsTargets(n, i))
    /\ EpsReach(n, SeqRange(n.start)) \subseteq SeqRange(n.start)

\* C33: after optimize the epsilon list of every node is exactly the set of
\* nodes reachable from it through one or more epsilon edges (chains and
\* cycles included), and the start set contains every node reachable from
\* a start node through epsilon edges
C33_EpsilonClosure ==
    (bopt # None /\ ~Unwrap(bopt).panicked) => EpsilonClosed(Unwrap(bopt))

\* the number of turns of the loop of optimize that are counted
MaxTurns == 3

\* the number of turns the loop of optimize (src/lexer) takes on `n`,
\* counted up to MaxTurns + 1
RECURSIVE OptimizeTurns(_, _)
OptimizeTurns(n, done) ==
    LET Turn(r) == IF r.changed /\ done < MaxTurns
                   THEN OptimizeTurns(r.nfa, done + 1)
                   ELSE done + 1
    IN Turn(NfaT_optimize_turn(n, 1, FALSE))

Reoptimized(n) == IF IsLexNfa(n) THEN Nfa_optimize(n) ELSE NfaT_optimize(n)

\* C34: optimize terminates, the loop of the src/lexer draft within
\* MaxTurns turns, and optimizing the optimized Nfa once more changes
\* nothing
C34_OptimizeFixpoint ==
    (bopt # None /\ ~Unwrap(bopt).panicked) =>
        /\ Reoptimized(Unwrap(bopt)) = Unwrap(bopt)
        /\ ~IsLexNfa(Unwrap(bnfa)) => OptimizeTurns(Unwrap(bnfa), 0) <= MaxTurns

\* an Nfa of the src/lexer draft that optimize changed and left with nodes
C34_Witness ==
    /\ bopt # None
    /\ ~IsLexNfa(Unwrap(bopt))
    /\ ~Unwrap(bopt).panicked
    /\ NodeCount(Unwrap(bopt)) >= 1
    /\ NodeCount(Unwrap(bopt)) < NodeCount(Unwrap(bnfa))
    /\ OptimizeTurns(Unwrap(bnfa), 0) >= 2

\* a Unicode scalar value: a code point outside the surrogate range
IsChar(c) == c \in CHAR_MIN..CHAR_MAX /\ ~(D7FF < c /\ c < E000)

\* the ranges a Regex of src/lexer is made of
RECURSIVE RegexRanges(_)
RegexRanges(r) ==
    CASE r.node[1] = "Range" -> {<<r.node[2], r.node[3]>>}
      [] r.node[1] \in {"Concat", "Union"} -> RegexRanges(r.node[2]) \cup RegexRanges(r.node[3])
      [] r.node[1] = "Star" -> RegexRanges(r.node[2])
      [] OTHER -> {}

\* the ranges on the edges of an Nfa of src/lex
NfaRanges(n) ==
    UNION {{<<n.nodes[i].edges[k][1], n.nodes[i].edges[k][2]>> :
              k \in 1..Len(n.nodes[i].edges)} : i \in 1..Len(n.nodes)}

\* C35: stepping a code point skips the surrogate range: the increment of
\* 0xD7FF is 0xE000 and the decrement of 0xE000 is 0xD7FF, any other step
\* is plus or minus one; stepping back after a step returns the code point;
\* and every range none_of produces has valid, ordered end points
C35_Stepping ==
    /\ stepped # None =>
          LET s == Unwrap(stepped)
          IN IF s.op = "incr"
             THEN /\ s.lexer = (IF s.from = D7FF THEN E000 ELSE s.from + 1)
                  /\ s.lex = s.lexer
                  /\ IsChar(s.lexer)
                  /\ decr_char(s.lexer) = s.from /\ char_decr(s.lex) = s.from
             ELSE /\ s.lexer = (IF s.from = E000 THEN D7FF ELSE s.from - 1)
                  /\ s.lex = s.lexer
                  /\ IsChar(s.lexer)
                  /\ incr_char(s.lexer) = s.from /\ char_incr(s.lex) = s.from
    /\ complement # None =>
          \A e \in RegexRanges(Unwrap(complement).lexer) \cup NfaRanges(Unwrap(complement).lex) :
              IsChar(e[1]) /\ IsChar(e[2]) /\ e[1] <= e[2]

\* 0xD7FF was incremented, and none_of was given 0xD7FF and a second
\* character and produced ranges in both drafts
C35_Witness ==
    /\ stepped # None /\ complement # None
    /\ Unwrap(stepped).op = "incr"
    /\ Unwrap(stepped).from = D7FF
    /\ Unwrap(stepped).lexer = E000
    /\ Len(Unwrap(codes)) = MaxCodes
    /\ RegexRanges(Unwrap(complement).lexer) # {}
    /\ NfaRanges(Unwrap(complement).lex) # {}

\* C36: every lexeme that is emitted has a length of at least 1 and of at
\* most the length of the input queue at the time emit is called, also for
\* rules whose regex matches the empty string; the length recorded in
\* last_accepted is always between 1 and the length of the input queue
C36_LexemeLength ==
    LET Bounded(s) ==
            IsSome(s.last_accepted) =>
                1 <= EmitLength(s) /\ EmitLength(s) <= Len(s.input)
    IN /\ ~panicked => Bounded(Self)
       /\ \A call \in EmitCalls : Bounded(call[1])
       /\ \A i \in 1..Len(emitted) : emitted[i].length >= 1

\* emit is called with two characters in the input queue for a lexeme of
\* one character, accepted by a rule whose regex matches the empty string
C36_Witness ==
    /\ draft = "lexer"
    /\ \E call \in EmitCalls :
          /\ IsSome(call[1].last_accepted)
          /\ EmitLength(call[1]) = 1
          /\ Len(call[1].input) = 2
          /\ \E m \in 1..Len(call[1].modes) : \E i \in 1..Len(call[1].modes[m]) :
                /\ call[1].modes[m][i].token = Unwrap(call[1].last_accepted)[1].token
                /\ call[1].modes[m][i].matcher.regex.nullable

\* the sum of the lengths of the lexemes
RECURSIVE LengthSum(_)
LengthSum(lexemes) ==
    IF lexemes = <<>> THEN 0 ELSE Head(lexemes).length + LengthSum(Tail(lexemes))

\* C37: in every state without error, the position plus the length of the
\* input queue is the number of characters put since the last reset, and
\* the position is the sum of the lengths of the lexemes emitted since the
\* last reset
C37_Conservation ==
    (~panicked /\ ~IsSome(error)) =>
        /\ position + Len(input) = Len(fed)
        /\ position = LengthSum(emitted)

\* after a reset, characters were put, two lexemes were emitted and a
\* character is still in the input queue
C37_Witness ==
    /\ ~panicked /\ ~IsSome(error)
    /\ resets > 0
    /\ Len(emitted) >= 2
    /\ Len(input) >= 1

\* C38: every put call terminates: the scan loop it starts takes finitely
\* many turns, whatever the rules answer, because every turn advances the
\* cursor, or emits and removes at least one character from the queue, or
\* stops the loop
C38_PutTerminates ==
    /\ <>(~Unwrap(scan).running)
    /\ [][Unwrap(scan).running =>
              \/ ~Unwrap(scan').running
              \/ Unwrap(scan').len < Unwrap(scan).len
              \/ /\ Unwrap(scan').len = Unwrap(scan).len
                 /\ Unwrap(scan').cursor > Unwrap(scan).cursor]_vars

\* a loop of src/lexer/lexer.rs that emitted, scanned what was left in the
\* queue again and ended without error
C38_Witness ==
    /\ Unwrap(scan).draft = "lexer/lexer.rs"
    /\ ~Unwrap(scan).running
    /\ ~Unwrap(scan).error /\ ~Unwrap(scan).panicked
    /\ Unwrap(scan).emits >= 1
    /\ Unwrap(scan).len >= 2
    /\ Unwrap(scan).cursor = Unwrap(scan).len

\* current_mode and the to_mode of every rule index a rule list
ModesRegistered ==
    /\ current_mode < Len(modes)
    /\ \A m \in 1..Len(modes) : \A i \in 1..Len(modes[m]) :
          (IF draft = "lexer" THEN modes[m][i].to_mode ELSE modes[m][i].mode_to) < Len(modes)

\* C39: in every state in which put or finish can run, also on a lexer that
\* new returned and that was given no rules and no start mode, current_mode
\* indexes an existing rule list and so does the to_mode of every rule, so
\* that put and finish never unwind on a missing mode
C39_ModeRegistered == ~panicked => ModesRegistered

\* every vertex that was added and not removed is found with its data and
\* its edges
OthersKept ==
    \A vertex \in DOMAIN Unwrap(gref).live :
        Graph_get_vertex(Unwrap(graph), vertex)
            = [panicked |-> FALSE, found |-> Some(Unwrap(gref).live[vertex])]

\* C40: remove_vertex(v) removes exactly v: after any sequence of add_vertex
\* and remove_vertex calls, whichever vertex is removed, has_vertex is false
\* for every removed vertex and every other vertex still has its data and
\* its edges
C40_RemoveExactly ==
    ~Unwrap(graph).panicked =>
        /\ \A vertex \in Unwrap(gref).removed : ~Graph_has_vertex(Unwrap(graph), vertex)
        /\ OthersKept
====
